---- MODULE Spec2Model ----
(***************************************************************************)
(* Model of the "where" search extension: the result pager                 *)
(* (SearchResultsProvider, providers.ts), the search pipeline              *)
(* (executeSearch, search.ts), and the search view with the listeners that *)
(* tie them together (SearchInputViewProvider, providers.ts; activate,     *)
(* extension.ts).                                                          *)
(*                                                                         *)
(* Text is modelled as a sequence of one-character strings; ESC stands for *)
(* the character U+001B.                                                   *)
(***************************************************************************)
EXTENDS Integers, Sequences, FiniteSets, TLC

(***************************************************************************)
(* Bounds of the model.                                                    *)
(***************************************************************************)
\* result lists have 0..MaxShort lines, or
\* batchSize-MaxExtra..batchSize+MaxExtra lines, or 2*batchSize+1 lines
MaxShort == 2
MaxExtra == 1
\* loadMoreResults is called with 0, with batchSize-MaxStep..batchSize+MaxStep
\* and (where any integer is allowed) with -MaxStep..-1 and -batchSize-1
MaxStep == 1

\* the texts stripAnsiCodes is applied to have at most MaxAnsiLen characters
MaxAnsiLen == 6

\* the content of the lines parseSearchLine is applied to has at most
\* MaxContentLen characters, the other texts at most MaxOtherLen
MaxContentLen == 3
MaxOtherLen == 5

\* the messages the search view posts in a session
MaxRequests == 2

\* where.loadMore is run with fewer than MaxUnread messages on their way to
\* the search view
MaxUnread == 1

\* the length of the setting where.rgArgs
MaxArgsLen == 4

\* the most timers pending when a further input event is taken
MaxPending == 1

(***************************************************************************)
(* Characters and strings.                                                 *)
(***************************************************************************)
ESC == "ESC"
Digit == {"0", "1", "2", "3", "4", "5", "6", "7", "8", "9"}
\* the white space String.prototype.trim removes
WhiteSpace == {" ", "\t", "\n", "\r"}
\* the characters the regular expression dot does not match
LineTerminator == {"\n", "\r"}

DigitVal(c) ==
    CASE c = "0" -> 0 [] c = "1" -> 1 [] c = "2" -> 2 [] c = "3" -> 3
      [] c = "4" -> 4 [] c = "5" -> 5 [] c = "6" -> 6 [] c = "7" -> 7
      [] c = "8" -> 8 [] c = "9" -> 9

\* s.slice(from - 1): the rest of s from position from on
Rest(s, from) == SubSeq(s, from, Len(s))

\* position of the first c in s at or after from, 0 when there is none
RECURSIVE IndexFrom(_, _, _)
IndexFrom(s, c, from) ==
    IF from > Len(s) THEN 0
    ELSE IF s[from] = c THEN from
    ELSE IndexFrom(s, c, from + 1)

RECURSIVE TrimStart(_)
TrimStart(s) ==
    IF s # <<>> /\ Head(s) \in WhiteSpace THEN TrimStart(Tail(s)) ELSE s

RECURSIVE TrimEnd(_)
TrimEnd(s) ==
    IF s # <<>> /\ s[Len(s)] \in WhiteSpace
    THEN TrimEnd(SubSeq(s, 1, Len(s) - 1)) ELSE s

\* String.prototype.trim
trim(s) == TrimEnd(TrimStart(s))

\* the decimal value of a run of digits
RECURSIVE DecimalValue(_)
DecimalValue(ds) ==
    IF ds = <<>> THEN 0
    ELSE 10 * DecimalValue(SubSeq(ds, 1, Len(ds) - 1)) + DigitVal(ds[Len(ds)])

\* the longest prefix of s made of digits
RECURSIVE DigitPrefix(_)
DigitPrefix(s) ==
    IF s # <<>> /\ Head(s) \in Digit THEN <<Head(s)>> \o DigitPrefix(Tail(s))
    ELSE <<>>

\* NaN, the value parseInt gives for text that starts with no number. Line
\* numbers are never negative (the texts of the model hold no sign), so a
\* negative number stands for it.
NaN == -1

\* parseInt(s, 10) of a text without sign: leading white space is skipped,
\* then the leading digits are read; undefined is passed as the empty text
parseInt(s) ==
    LET ds == DigitPrefix(TrimStart(s))
    IN  IF ds = <<>> THEN NaN ELSE DecimalValue(ds)

\* String.prototype.split(sep) for a one-character separator
RECURSIVE split(_, _)
split(s, sep) ==
    LET i == IndexFrom(s, sep, 1)
    IN  IF i = 0 THEN <<s>>
        ELSE <<SubSeq(s, 1, i - 1)>> \o split(Rest(s, i + 1), sep)

\* Array.prototype.join(sep) for a one-character separator
RECURSIVE join(_, _)
join(parts, sep) ==
    IF parts = <<>> THEN <<>>
    ELSE IF Len(parts) = 1 THEN parts[1]
    ELSE (parts[1] \o <<sep>>) \o join(Tail(parts), sep)

\* parseSearchLine: the match of /^([^:]+):(\d+):(.*)$/. The file is the
\* non-empty text before the first colon, the digits run up to the second
\* colon, and the dot matches no line terminator.
null == [null |-> TRUE]

parseSearchLine(line) ==
    LET i == IndexFrom(line, ":", 1)
        j == IF i = 0 THEN 0 ELSE IndexFrom(line, ":", i + 1)
        digits == SubSeq(line, i + 1, j - 1)
        content == Rest(line, j + 1)
    IN  IF /\ i >= 2
           /\ j > i + 1
           /\ \A k \in 1..Len(digits) : digits[k] \in Digit
           /\ \A k \in 1..Len(content) : content[k] \notin LineTerminator
        THEN [file |-> SubSeq(line, 1, i - 1),
              line |-> DecimalValue(digits),
              content |-> content]
        ELSE null

(***************************************************************************)
(* path.isAbsolute and path.join (POSIX), as loadMoreResults uses them.    *)
(***************************************************************************)
isAbsolute(p) == p # <<>> /\ Head(p) = "/"

DotDot == <<".", ".">>

\* normalizeString: drops empty and "." segments, resolves ".." segments
RECURSIVE NormalizeSegments(_, _, _)
NormalizeSegments(segs, acc, allowAboveRoot) ==
    IF segs = <<>> THEN acc
    ELSE LET seg == Head(segs)
             more == Tail(segs)
         IN  IF seg = <<>> \/ seg = <<".">>
             THEN NormalizeSegments(more, acc, allowAboveRoot)
             ELSE IF seg # DotDot
             THEN NormalizeSegments(more, Append(acc, seg), allowAboveRoot)
             ELSE IF acc # <<>> /\ acc[Len(acc)] # DotDot
             THEN NormalizeSegments(more, SubSeq(acc, 1, Len(acc) - 1),
                                    allowAboveRoot)
             ELSE IF allowAboveRoot
             THEN NormalizeSegments(more, Append(acc, seg), allowAboveRoot)
             ELSE NormalizeSegments(more, acc, allowAboveRoot)

normalize(p) ==
    IF p = <<>> THEN <<".">>
    ELSE LET abs == isAbsolute(p)
             trailing == p[Len(p)] = "/"
             body == join(NormalizeSegments(split(p, "/"), <<>>, ~abs), "/")
         IN  IF body = <<>>
             THEN (IF abs THEN <<"/">>
                   ELSE IF trailing THEN <<".", "/">> ELSE <<".">>)
             ELSE (IF abs THEN <<"/">> ELSE <<>>) \o body
                  \o (IF trailing THEN <<"/">> ELSE <<>>)

\* path.join(a, b): the non-empty arguments joined by "/", normalized
pathJoin(a, b) ==
    IF a = <<>> /\ b = <<>> THEN <<".">>
    ELSE IF a = <<>> THEN normalize(b)
    ELSE IF b = <<>> THEN normalize(a)
    ELSE normalize((a \o <<"/">>) \o b)

\* faulty variant: the workspace path is put in front of every path
resolveFileAlwaysJoins(file, workspace) == pathJoin(workspace, file)

\* path.isAbsolute(file) ? file : path.join(this.workspacePath, file)
resolveFile(file, workspace) ==
    IF isAbsolute(file) THEN file ELSE pathJoin(workspace, file)

(***************************************************************************)
(* The texts of the model.                                                 *)
(***************************************************************************)
\* raw lines: well-formed with a relative, a dotted and an absolute path,
\* with colons and white space in the content, and one that is not of the
\* form file:digits:content
LineA == <<"a", ":", "1", ":", "x">>
LineB == <<"b", ":", "2", ":", " ", "y", ":", "z">>
LineDot == <<".", "/", "b", ":", "1", "2", ":", "y", " ">>
LineAbs == <<"/", "w", "/", "a", ":", "3", ":", "x">>
LineBad == <<"a", ":", "x">>

SampleLines == {LineA, LineB, LineDot, LineAbs, LineBad}

\* workspaceFolder.uri.fsPath: an absolute path
WorkspacePaths == {<<"/", "w">>, <<"/", "v">>}

(***************************************************************************)
(* The result pager: SearchResultsProvider.                                *)
(***************************************************************************)
VARIABLES
    results,             \* Map<string, SearchResult[]> in insertion order:
                         \* a sequence of [file, matches]
    allRawResults,       \* the raw lines of the current result set
    currentlyDisplayed,  \* the reveal cursor
    workspacePath,
    lastCall,            \* the last call of the pager: its name, the count
                         \* passed (the size of the list for setAllResults)
                         \* and the value loadMoreResults returned
    negativeCount,       \* a negative count has been passed to
                         \* loadMoreResults since the result set was replaced
    notified             \* what the pager held when onDidChangeTreeData was
                         \* last fired: what the tree view has been told of

pagerVars ==
    <<results, allRawResults, currentlyDisplayed, workspacePath, lastCall,
      negativeCount, notified>>

batchSize == 100

Min(a, b) == IF a <= b THEN a ELSE b
Max(a, b) == IF a >= b THEN a ELSE b

\* Array.prototype.slice(start, end): a negative index counts from the end
slice(arr, start, end) ==
    LET len == Len(arr)
        from == IF start < 0 THEN Max(len + start, 0) ELSE Min(start, len)
        to == IF end < 0 THEN Max(len + end, 0) ELSE Min(end, len)
    IN  SubSeq(arr, from + 1, to)

\* faulty variant: the batch is taken from the start of the list
batchFromStart(raw, startIndex, endIndex) == slice(raw, 0, endIndex)

\* const batch = this.allRawResults.slice(startIndex, endIndex)
batchOf(raw, startIndex, endIndex) == slice(raw, startIndex, endIndex)

\* the SearchResult of one raw line (the callback of batch.map)
toSearchResult(rawLine, workspace) ==
    LET parsed == parseSearchLine(rawLine)
    IN  IF parsed = null
        THEN LET parts == split(rawLine, ":")
             IN  [file |-> resolveFile(parts[1], workspace),
                  line |-> IF Len(parts) >= 2 THEN parseInt(parts[2]) ELSE NaN,
                  content |-> trim(join(SubSeq(parts, 3, Len(parts)), ":"))]
        ELSE [file |-> resolveFile(parsed.file, workspace),
              line |-> parsed.line,
              content |-> trim(parsed.content)]

\* toSearchResult, tabulated over the lines and workspace paths of the model
searchResultTable ==
    [l \in SampleLines |-> [w \in WorkspacePaths |-> toSearchResult(l, w)]]

searchResultOf(rawLine, workspace) == searchResultTable[rawLine][workspace]

\* position of the group of file in the map, 0 when it has none
RECURSIVE GroupIndex(_, _, _)
GroupIndex(map, file, from) ==
    IF from > Len(map) THEN 0
    ELSE IF map[from].file = file THEN from
    ELSE GroupIndex(map, file, from + 1)

\* faulty variant: the match is put at the front of its group
addResultInFront(map, r) ==
    LET g == GroupIndex(map, r.file, 1)
    IN  IF g = 0
        THEN Append(map, [file |-> r.file, matches |-> <<r>>])
        ELSE [map EXCEPT ![g].matches = <<r>> \o @]

\* if (!results.has(file)) results.set(file, []); results.get(file).push(r)
addResult(map, r) ==
    LET g == GroupIndex(map, r.file, 1)
    IN  IF g = 0
        THEN Append(map, [file |-> r.file, matches |-> <<r>>])
        ELSE [map EXCEPT ![g].matches = Append(@, r)]

\* for (const result of searchResults) { ... }: the loop over the batch in
\* order, evaluated by halves, the first half before the second
RECURSIVE addResults(_, _, _)
addResults(map, batch, workspace) ==
    IF batch = <<>> THEN map
    ELSE IF Len(batch) = 1
    THEN addResult(map, searchResultOf(batch[1], workspace))
    ELSE LET h == Len(batch) \div 2
             first == addResults(map, SubSeq(batch, 1, h), workspace)
         IN  CASE Len(first) >= 0 ->
                  addResults(first, SubSeq(batch, h + 1, Len(batch)), workspace)

\* faulty variant: the end of the batch is not limited to the list
endIndexUnclamped(startIndex, count, total) == startIndex + count

\* const endIndex = Math.min(startIndex + count, this.allRawResults.length)
endIndexOf(startIndex, count, total) == Min(startIndex + count, total)

\* faulty variant: the early return is taken only past the end
noMoreToLoadPastEnd(startIndex, total) == startIndex > total

\* if (startIndex >= this.allRawResults.length) return false
noMoreToLoad(startIndex, total) == startIndex >= total

\* faulty variant: the last batch still reports more
moreAvailableAtEnd(endIndex, total) == endIndex <= total

\* return endIndex < this.allRawResults.length
moreAvailable(endIndex, total) == endIndex < total

\* loadMoreResults(count) on the pager state (map, raw, cursor, workspace):
\* the new grouping, the new cursor and the value returned
loadMoreResults(map, raw, cursor, workspace, count) ==
    LET startIndex == cursor
        endIndex == endIndexOf(startIndex, count, Len(raw))
    IN  IF noMoreToLoad(startIndex, Len(raw))
        THEN [results |-> map, currentlyDisplayed |-> cursor, ret |-> FALSE,
              fired |-> FALSE]
        ELSE [results |-> addResults(map, batchOf(raw, startIndex, endIndex),
                                     workspace),
              currentlyDisplayed |-> endIndex,
              ret |-> moreAvailable(endIndex, Len(raw)),
              fired |-> TRUE]

hasMoreResults == currentlyDisplayed < Len(allRawResults)
getTotalResultCount == Len(allRawResults)
getDisplayedResultCount == currentlyDisplayed

\* path.basename (POSIX) of a path without trailing slash
basename(p) ==
    LET segs == split(p, "/") IN segs[Len(segs)]

\* getChildren(): the root of the tree, one item per file group in map order,
\* then the Load More item
getChildren ==
    IF Len(results) = 0 THEN <<>>
    ELSE [g \in 1..Len(results) |->
              [type |-> "file", label |-> basename(results[g].file),
               filePath |-> results[g].file,
               matchCount |-> Len(results[g].matches)]]
         \o (IF hasMoreResults
             THEN <<[type |-> "loadMore", label |-> <<>>, filePath |-> <<>>,
                     matchCount |-> 0]>>
             ELSE <<>>)

\* line! - 1, which is NaN for NaN
minusOne(line) == IF line = NaN THEN NaN ELSE line - 1

\* faulty variant: the line number is handed over as it is shown
openResultOneBased(filePath, line) ==
    [command |-> "where.openResult", arguments |-> <<filePath, line>>]

\* this.command of a match item (the constructor of SearchResultItem)
openResult(filePath, line) ==
    [command |-> "where.openResult",
     arguments |-> <<filePath, minusOne(line)>>]

\* getChildren(element) of a file item: its matches in order
getChildrenOf(element) ==
    IF element.type # "file" THEN <<>>
    ELSE LET g == GroupIndex(results, element.filePath, 1)
         IN  IF g = 0 THEN <<>>
             ELSE [i \in 1..Len(results[g].matches) |->
                       [type |-> "match",
                        label |-> results[g].matches[i].content,
                        filePath |-> element.filePath,
                        line |-> results[g].matches[i].line,
                        command |-> openResult(element.filePath,
                                               results[g].matches[i].line)]]

\* what the tree view reads of the pager
viewOf(map, raw, cursor) ==
    [results |-> map, total |-> Len(raw), displayed |-> cursor]

\* refresh(): this._onDidChangeTreeData.fire(), as the last statement of the
\* method that calls it
refresh == notified' = viewOf(results', allRawResults', currentlyDisplayed')

\* what clear() and setAllResults() reset before anything is revealed
emptyResults == <<>>
resetCursor == 0

\* faulty variant: clear() keeps the raw lines
ClearKeepsRawResults ==
    /\ results' = emptyResults
    /\ currentlyDisplayed' = resetCursor
    /\ lastCall' = [op |-> "clear", count |-> 0, ret |-> FALSE]
    /\ negativeCount' = FALSE
    /\ UNCHANGED <<allRawResults, workspacePath>>
    /\ refresh

Clear ==
    /\ results' = emptyResults
    /\ allRawResults' = <<>>
    /\ currentlyDisplayed' = resetCursor
    /\ lastCall' = [op |-> "clear", count |-> 0, ret |-> FALSE]
    /\ negativeCount' = FALSE
    /\ UNCHANGED workspacePath
    /\ refresh

\* faulty variant: setAllResults() does not empty the grouping
SetAllResultsKeepsGroups(rawResults, workspace) ==
    LET r == loadMoreResults(results, rawResults, resetCursor, workspace,
                             batchSize)
    IN  /\ allRawResults' = rawResults
        /\ workspacePath' = workspace
        /\ results' = r.results
        /\ currentlyDisplayed' = r.currentlyDisplayed
        /\ lastCall' = [op |-> "setAllResults", count |-> Len(rawResults),
                        ret |-> r.ret]
        /\ negativeCount' = FALSE
        /\ IF r.fired THEN refresh ELSE UNCHANGED notified

\* faulty variant: setAllResults() reveals nothing of the new list
SetAllResultsRevealsNothing(rawResults, workspace) ==
    /\ allRawResults' = rawResults
    /\ workspacePath' = workspace
    /\ results' = emptyResults
    /\ currentlyDisplayed' = resetCursor
    /\ lastCall' = [op |-> "setAllResults", count |-> Len(rawResults),
                    ret |-> Len(rawResults) > 0]
    /\ negativeCount' = FALSE
    /\ refresh

SetAllResults(rawResults, workspace) ==
    LET r == loadMoreResults(emptyResults, rawResults, resetCursor, workspace,
                             batchSize)
    IN  /\ allRawResults' = rawResults
        /\ workspacePath' = workspace
        /\ results' = r.results
        /\ currentlyDisplayed' = r.currentlyDisplayed
        /\ lastCall' = [op |-> "setAllResults", count |-> Len(rawResults),
                        ret |-> r.ret]
        /\ negativeCount' = FALSE
        /\ IF r.fired THEN refresh ELSE UNCHANGED notified

LoadMoreResults(count) ==
    LET r == loadMoreResults(results, allRawResults, currentlyDisplayed,
                             workspacePath, count)
    IN  /\ results' = r.results
        /\ currentlyDisplayed' = r.currentlyDisplayed
        /\ lastCall' = [op |-> "loadMoreResults", count |-> count,
                        ret |-> r.ret]
        /\ negativeCount' = (negativeCount \/ count < 0)
        /\ UNCHANGED <<allRawResults, workspacePath>>
        /\ IF r.fired THEN refresh ELSE UNCHANGED notified

\* the command where.loadMore: resultsProvider.loadMoreResults(100)
loadMoreCount == 100

LoadMoreCommand == LoadMoreResults(loadMoreCount)

PagerInit ==
    /\ results = <<>>
    /\ allRawResults = <<>>
    /\ currentlyDisplayed = 0
    /\ workspacePath = <<>>
    /\ lastCall = [op |-> "new", count |-> 0, ret |-> FALSE]
    /\ negativeCount = FALSE
    /\ notified = viewOf(<<>>, <<>>, 0)

(***************************************************************************)
(* The calls made on the pager.                                            *)
(***************************************************************************)
\* all lists of at most MaxShort sample lines
RECURSIVE ListsOfLength(_)
ListsOfLength(n) ==
    IF n = 0 THEN {<<>>}
    ELSE {Append(l, x) : l \in ListsOfLength(n - 1), x \in SampleLines}

ShortLists == UNION {ListsOfLength(n) : n \in 0..MaxShort}

\* lists of about one batch, and of more than two: a pattern repeated
LongPatterns == {<<LineB, LineDot, LineAbs, LineBad, LineA>>}

Cycle(pattern, n) == [i \in 1..n |-> pattern[((i - 1) % Len(pattern)) + 1]]

LongLengths ==
    ((batchSize - MaxExtra)..(batchSize + MaxExtra)) \cup {2 * batchSize + 1}

LongLists == {Cycle(p, n) : p \in LongPatterns, n \in LongLengths}

\* the calls of setAllResults: a short list under any workspace path, a long
\* list under the first
SetAllCalls ==
    (ShortLists \X WorkspacePaths) \cup (LongLists \X {<<"/", "w">>})

\* the counts loadMoreResults is called with: the callers of the program pass
\* batchSize and 100; the method itself takes any number
Counts == {0} \cup ((batchSize - MaxStep)..(batchSize + MaxStep))
NegativeCounts == ((0 - MaxStep)..(0 - 1)) \cup {0 - batchSize - 1}

(***************************************************************************)
(* The search pipeline: executeSearch.                                     *)
(***************************************************************************)
\* one match of /\x1b\[[0-9;]*m/ starts at position 1 of s and ends at the
\* position returned, 0 when none starts there
RECURSIVE AnsiEnd(_, _)
AnsiEnd(s, i) ==
    IF i > Len(s) THEN 0
    ELSE IF s[i] \in Digit \cup {";"} THEN AnsiEnd(s, i + 1)
    ELSE IF s[i] = "m" THEN i
    ELSE 0

\* faulty variant: the colour codes are left in the text
keepsAnsiCodes(s) == s

\* line.replace(/\x1b\[[0-9;]*m/g, ''): every match is removed, from the left
RECURSIVE stripAnsiCodes(_)
stripAnsiCodes(s) ==
    IF s = <<>> THEN <<>>
    ELSE LET e == IF Len(s) >= 2 /\ s[1] = ESC /\ s[2] = "["
                  THEN AnsiEnd(s, 3) ELSE 0
         IN  IF e > 0 THEN stripAnsiCodes(Rest(s, e + 1))
             ELSE <<s[1]>> \o stripAnsiCodes(Tail(s))

\* text.split('\n').filter(line => line.trim())
nonBlankLines(text) ==
    SelectSeq(split(text, "\n"), LAMBDA line : trim(line) # <<>>)

\* fullLine.match(/^([^:]+):/)[1], the empty text when there is no match
fileOfLine(fullLine) ==
    LET i == IndexFrom(fullLine, ":", 1)
    IN  IF i >= 2 THEN SubSeq(fullLine, 1, i - 1) ELSE <<>>

\* faulty variant: the lines that do not match are kept as well
lineMappingKeepsUnparsed(rgOutput) ==
    LET rgLines == nonBlankLines(rgOutput)
    IN  [k \in 1..Len(rgLines) |->
            [index |-> k - 1, fullLine |-> stripAnsiCodes(rgLines[k])]]

\* lineMapping: for each non-blank line of the grep output that, with the
\* colour codes removed, matches file:digits:content with content that is
\* not blank, its 0-based index and the clean line, in order
lineMappingOf(rgOutput) ==
    LET rgLines == nonBlankLines(rgOutput)
        cleanLine(index) == stripAnsiCodes(rgLines[index])
        kept(index) ==
            LET match == parseSearchLine(cleanLine(index))
            IN  match # null /\ trim(match.content) # <<>>
        entries == [index \in 1..Len(rgLines) |->
                       [index |-> index - 1, fullLine |-> cleanLine(index)]]
    IN  SelectSeq(entries, LAMBDA e : kept(e.index + 1))

\* faulty variant: the file of every line, repeated ones included
filenamesWithRepeats(mapping) ==
    [k \in 1..Len(mapping) |-> fileOfLine(mapping[k].fullLine)]

\* Array.from(filenames): the files of the mapping, each once, in the order
\* of first occurrence
RECURSIVE distinctFiles(_, _)
distinctFiles(mapping, seen) ==
    IF mapping = <<>> THEN seen
    ELSE LET f == fileOfLine(Head(mapping).fullLine)
         IN  IF f = <<>> \/ \E k \in 1..Len(seen) : seen[k] = f
             THEN distinctFiles(Tail(mapping), seen)
             ELSE distinctFiles(Tail(mapping), Append(seen, f))

filenamesOf(mapping) == distinctFiles(mapping, <<>>)

\* the lines the fuzzy engine printed, non-blank ones, colour codes removed
matchedLines(fzfOutput) ==
    LET lines == nonBlankLines(fzfOutput)
    IN  [k \in 1..Len(lines) |-> stripAnsiCodes(lines[k])]

\* faulty variant: when no file was printed every line is kept
filterKeepsAllIfNoneMatched(mapping, fzfFilenameOutput) ==
    LET lines == matchedLines(fzfFilenameOutput)
        kept == SelectSeq(mapping,
                    LAMBDA e : \E k \in 1..Len(lines) :
                                   lines[k] = fileOfLine(e.fullLine))
    IN  IF kept = <<>> THEN mapping ELSE kept

\* the mapping restricted to the lines whose file the fuzzy engine printed
filterByFilenames(mapping, fzfFilenameOutput) ==
    LET lines == matchedLines(fzfFilenameOutput)
        matchedFilenames == {lines[k] : k \in 1..Len(lines)}
    IN  SelectSeq(mapping,
                  LAMBDA e : /\ fileOfLine(e.fullLine) # <<>>
                             /\ fileOfLine(e.fullLine) \in matchedFilenames)

\* match[3] of a full line
contentOf(fullLine) == parseSearchLine(fullLine).content

\* faulty variant: the contents are trimmed
contentLinesTrimmed(mapping) ==
    LET matching == SelectSeq(mapping,
                              LAMBDA e : parseSearchLine(e.fullLine) # null)
    IN  [k \in 1..Len(matching) |-> trim(contentOf(matching[k].fullLine))]

\* filteredContentLines: the content of every line of the mapping that matches
contentLinesOf(mapping) ==
    LET matching == SelectSeq(mapping,
                              LAMBDA e : parseSearchLine(e.fullLine) # null)
    IN  [k \in 1..Len(matching) |-> contentOf(matching[k].fullLine)]

\* position of the first entry of remaining whose content is matchedContent
RECURSIVE FirstWithContent(_, _, _)
FirstWithContent(remaining, matchedContent, from) ==
    IF from > Len(remaining) THEN 0
    ELSE IF /\ parseSearchLine(remaining[from].fullLine) # null
            /\ contentOf(remaining[from].fullLine) = matchedContent
    THEN from
    ELSE FirstWithContent(remaining, matchedContent, from + 1)

\* faulty variant: a line that was matched is not removed
RECURSIVE matchBackWithoutRemoval(_, _)
matchBackWithoutRemoval(matchedContents, remaining) ==
    IF matchedContents = <<>> THEN <<>>
    ELSE LET k == FirstWithContent(remaining, Head(matchedContents), 1)
         IN  IF k = 0
             THEN matchBackWithoutRemoval(Tail(matchedContents), remaining)
             ELSE <<remaining[k].fullLine>>
                  \o matchBackWithoutRemoval(Tail(matchedContents), remaining)

\* faulty variant: the lines whose content was printed, in grep order
matchBackInGrepOrder(matchedContents, remaining) ==
    LET found == SelectSeq(remaining,
                     LAMBDA e : \E k \in 1..Len(matchedContents) :
                                    matchedContents[k] = contentOf(e.fullLine))
    IN  [k \in 1..Len(found) |-> found[k].fullLine]

\* faulty variant: a printed content that no remaining line has is delivered
\* as it was printed
RECURSIVE matchBackKeepsUnmatched(_, _)
matchBackKeepsUnmatched(matchedContents, remaining) ==
    IF matchedContents = <<>> THEN <<>>
    ELSE LET k == FirstWithContent(remaining, Head(matchedContents), 1)
         IN  IF k = 0
             THEN <<Head(matchedContents)>>
                  \o matchBackKeepsUnmatched(Tail(matchedContents), remaining)
             ELSE <<remaining[k].fullLine>>
                  \o matchBackKeepsUnmatched(Tail(matchedContents),
                                             SubSeq(remaining, 1, k - 1)
                                                 \o Rest(remaining, k + 1))

\* for (const matchedContent of matchedContents) { ... }: each printed content
\* takes the first remaining line with that content
RECURSIVE matchBack(_, _)
matchBack(matchedContents, remaining) ==
    IF matchedContents = <<>> THEN <<>>
    ELSE LET k == FirstWithContent(remaining, Head(matchedContents), 1)
         IN  IF k = 0 THEN matchBack(Tail(matchedContents), remaining)
             ELSE <<remaining[k].fullLine>>
                  \o matchBack(Tail(matchedContents),
                               SubSeq(remaining, 1, k - 1)
                                   \o Rest(remaining, k + 1))

\* Array.from(filteredMapping.values())
fullLinesOf(mapping) == [k \in 1..Len(mapping) |-> mapping[k].fullLine]

\* faulty variant: only the exit code 0 is not a failure
acceptsOnlyZero(code) == code = 0

\* faulty variant: the search goes on whatever grep printed
alwaysCandidates(rgOutput) == FALSE

\* if (!rgOutput.trim()) ... if (contentLines.length === 0): grep printed
\* nothing to search in
noCandidates(rgOutput) ==
    trim(rgOutput) = <<>> \/ lineMappingOf(rgOutput) = <<>>

\* the exit codes that are not a failure
acceptedCode(code) == code = 0 \/ code = 1

\* faulty variant: the filename stage runs whatever the filter is
alwaysFilenameStage(filter) == TRUE

\* if (filenameFilter.trim())
needsFilenameStage(filter) == trim(filter) # <<>>

\* faulty variant: no query counts as blank
neverBlankQuery(q) == FALSE

\* !query.trim()
blankQuery(q) == trim(q) = <<>>

VARIABLES
    pc,                  \* where executeSearch is: "idle", awaiting the close
                         \* of "rg", of "filename", of "content", or "done"
    query,
    filenameFilter,
    rgProcess,           \* each process: its state, the output and the exit
    fzfFilenameProcess,  \* code it is going to give, the output read so far
    fzfProcess,          \* (rgOutput, rgError, ...) and what was written to it
    lineMapping,
    filteredMapping,
    outcome,             \* the promise executeSearch returned
    spawned,             \* the processes spawned, in order
    uncaught             \* errors no handler took: uncaught exceptions and
                         \* unhandled rejections

searchVars ==
    <<pc, query, filenameFilter, rgProcess, fzfFilenameProcess, fzfProcess,
      lineMapping, filteredMapping, outcome, spawned, uncaught>>

\* a character of two bytes in UTF-8, and the character that stands for
\* bytes that are no character
EAcute == "U+00E9"
Replacement == "U+FFFD"

\* the bytes of a text written to a pipe
RECURSIVE utf8Bytes(_)
utf8Bytes(s) ==
    IF s = <<>> THEN <<>>
    ELSE (IF Head(s) = EAcute THEN <<"0xC3", "0xA9">>
          ELSE IF Head(s) = Replacement THEN <<"0xEF", "0xBF", "0xBD">>
          ELSE <<Head(s)>>) \o utf8Bytes(Tail(s))

\* data.toString() of a Buffer: the bytes of the chunk decoded as UTF-8 on
\* their own, every run of bytes that is no whole character giving U+FFFD
RECURSIVE toString(_)
toString(bytes) ==
    IF bytes = <<>> THEN <<>>
    ELSE IF Len(bytes) >= 2 /\ bytes[1] = "0xC3" /\ bytes[2] = "0xA9"
    THEN <<EAcute>> \o toString(Rest(bytes, 3))
    ELSE IF /\ Len(bytes) >= 3 /\ bytes[1] = "0xEF" /\ bytes[2] = "0xBF"
            /\ bytes[3] = "0xBD"
    THEN <<Replacement>> \o toString(Rest(bytes, 4))
    ELSE IF Len(bytes) >= 2 /\ bytes[1] = "0xEF" /\ bytes[2] = "0xBF"
    THEN <<Replacement>> \o toString(Rest(bytes, 3))
    ELSE IF bytes[1] \in {"0xC3", "0xEF", "0xA9", "0xBF", "0xBD"}
    THEN <<Replacement>> \o toString(Tail(bytes))
    ELSE <<bytes[1]>> \o toString(Tail(bytes))

noProcess ==
    [state |-> "none", stdout |-> <<>>, stderr |-> <<>>, code |-> 0,
     output |-> <<>>, error |-> <<>>, stdin |-> <<>>, emitted |-> <<>>]

\* child_process.spawn: the process runs and is going to print stdout and
\* stderr and to exit with code, or it cannot be spawned
spawn(run, stdin) ==
    [state |-> IF run.spawns THEN "running" ELSE "failed",
     stdout |-> run.stdout, stderr |-> run.stderr, code |-> run.code,
     output |-> <<>>, error |-> <<>>, stdin |-> stdin, emitted |-> <<>>]

\* the 'data' handlers: output += data.toString(), for a chunk of the first
\* n bytes not yet read; emitted keeps the bytes read so far
readStdout(process, n) ==
    [process EXCEPT !.output = @ \o toString(SubSeq(process.stdout, 1, n)),
                    !.emitted = @ \o SubSeq(process.stdout, 1, n),
                    !.stdout = Rest(@, n + 1)]

readStderr(process) ==
    [process EXCEPT !.error = @ \o toString(process.stderr), !.stderr = <<>>]

\* the process has exited and its streams have ended: 'close' is emitted
exited(process) == [process EXCEPT !.state = "closed"]

\* 'error' is emitted on a process that has no listener for it
errored(process) == [process EXCEPT !.state = "errored"]

resolved(lines) ==
    [state |-> "resolved", results |-> lines, prefix |-> "", stderr |-> <<>>]

\* faulty variant: the text of stderr is trimmed in the message
rejectedTrimmed(prefix, stderr) ==
    [state |-> "rejected", results |-> <<>>, prefix |-> prefix,
     stderr |-> trim(stderr)]

rejected(prefix, stderr) ==
    [state |-> "rejected", results |-> <<>>, prefix |-> prefix,
     stderr |-> stderr]

pending ==
    [state |-> "pending", results |-> <<>>, prefix |-> "", stderr |-> <<>>]

SearchInit ==
    /\ pc = "idle"
    /\ query = <<>>
    /\ filenameFilter = <<>>
    /\ rgProcess = noProcess
    /\ fzfFilenameProcess = noProcess
    /\ fzfProcess = noProcess
    /\ lineMapping = <<>>
    /\ filteredMapping = <<>>
    /\ outcome = [state |-> "none", results |-> <<>>, prefix |-> "",
                  stderr |-> <<>>]
    /\ spawned = <<>>
    /\ uncaught = <<>>

\* executeSearch(rgPath, rgArgs, fzfPath, query, filenameFilter, cwd): the
\* promise is created and the grep process spawned
ExecuteSearch(q, filter, run) ==
    /\ pc = "idle"
    /\ pc' = "rg"
    /\ query' = q
    /\ filenameFilter' = filter
    /\ rgProcess' = spawn(run, <<>>)
    /\ spawned' = Append(spawned, "rg")
    /\ outcome' = pending
    /\ UNCHANGED <<fzfFilenameProcess, fzfProcess, lineMapping,
                   filteredMapping, uncaught>>

\* the content stage, from "Build content lines only from filtered files" on:
\* the search is resolved, or the content fuzzy process is spawned and its
\* input written
ContentStage(mapping, run) ==
    LET filteredContentLines == contentLinesOf(mapping)
    IN  IF Len(filteredContentLines) = 0 \/ blankQuery(query)
        THEN /\ outcome' = IF blankQuery(query)
                           THEN resolved(fullLinesOf(mapping))
                           ELSE resolved(<<>>)
             /\ pc' = "done"
             /\ UNCHANGED <<fzfProcess, spawned>>
        ELSE /\ fzfProcess' = spawn(run, join(filteredContentLines, "\n"))
             /\ spawned' = Append(spawned, "content")
             /\ pc' = "content"
             /\ UNCHANGED outcome

(***************************************************************************)
(* The searches made and what the external engines do.                     *)
(***************************************************************************)
Queries == {<<>>, <<" ">>, <<"x">>, <<"f", "o", "o">>}
Filters == {<<>>, <<"\t">>, <<"a">>}

\* what grep prints: nothing, blank lines only, lines of two files, coloured
\* lines with equal content, lines that are dropped, and a coloured line
\* followed by a line that starts with a space
NoOutput == <<>>
BlankOutput == <<" ", "\n", "\n">>
TwoFiles ==
    <<"a", ":", "1", ":", "x", "\n", "b", ":", "2", ":", " ", "y", ":", "z",
      "\n">>
Coloured ==
    <<"a", ":", "3", ":", ESC, "[", "3", "1", "m", "x", ESC, "[", "0", "m",
      "\n", ESC, "[", "3", "5", "m", "a", ESC, "[", "0", "m", ":", "4", ":",
      "x", "\n", "b", ":", "5", ":", "x">>
Dropped == <<"a", ":", "x", "\n", "b", ":", "7", ":", " ", "\n">>

Indented ==
    <<"a", ".", "t", "s", ":", "3", ":", ESC, "[", "3", "1", "m", "f", "o",
      "o", ESC, "[", "0", "m", " ", "b", "a", "r", "\n", " ", "b", ".", "t",
      "s", ":", "1", "0", ":", "b", "a", "z", " ", "f", "o", "o", "\n">>

\* the lines of a file whose lines end with a carriage return and a newline
CarriageReturns ==
    <<"a", ":", "1", ":", "x", "\r", "\n", "a", ":", "2", ":", "y", "\r",
      "\n">>

\* the bytes of a line with a character of two bytes
Accented == <<"a", ":", "1", ":">> \o utf8Bytes(<<EAcute>>) \o <<"\n">>

\* a line that is not file:digits:content in front of one that is
Mixed == <<"a", ":", "x", "\n", "a", ":", "1", ":", "x", "\n">>

RgOutputs ==
    {NoOutput, BlankOutput, TwoFiles, Coloured, Dropped, Indented,
     CarriageReturns, Accented, Mixed}

ExitCodes == {0, 1, 2}

\* what a failing engine prints on stderr
ErrorText == <<" ", "e", "\n">>

stderrOf(code) == IF acceptedCode(code) THEN <<>> ELSE ErrorText

notSpawned ==
    [spawns |-> FALSE, stdout |-> <<>>, stderr |-> <<>>, code |-> 0]

RgRuns ==
    {[spawns |-> TRUE, stdout |-> out, stderr |-> stderrOf(c), code |-> c] :
        out \in RgOutputs, c \in ExitCodes} \cup {notSpawned}

\* the sequences of distinct positions of 1..n
RECURSIVE Selections(_, _)
Selections(n, len) ==
    IF len = 0 THEN {<<>>}
    ELSE LET shorter == Selections(n, len - 1)
         IN  shorter \cup
             {Append(sel, k) : sel \in {x \in shorter : Len(x) = len - 1},
                               k \in 1..n}

DistinctSelections(n) ==
    {sel \in Selections(n, n) :
        \A i \in 1..Len(sel) : \A j \in 1..Len(sel) :
            i # j => sel[i] # sel[j]}

\* the lines printed, each ended by a newline
RECURSIVE printed(_)
printed(lines) ==
    IF lines = <<>> THEN <<>>
    ELSE (Head(lines) \o <<"\n">>) \o printed(Tail(lines))

\* a line that is none of the lines given to the engine
StrayLine == <<"z", "z">>

\* a line printed in colour
coloured(line) == <<ESC, "[", "m">> \o line

\* what the fuzzy engine prints for the lines it is given: some of them, in
\* the order of its choice, or a line it was not given, or the first line
\* twice, or the first line in colour; with any exit code
FuzzyOutputs(lines) ==
    {printed([k \in 1..Len(sel) |-> lines[sel[k]]]) :
        sel \in DistinctSelections(Len(lines))}
        \cup {printed(<<StrayLine>>)}
        \cup {printed(<<lines[k], lines[k]>>) : k \in 1..Min(1, Len(lines))}
        \cup {printed(<<coloured(lines[k])>>) : k \in 1..Min(1, Len(lines))}

FuzzyRuns(lines) ==
    {[spawns |-> TRUE, stdout |-> utf8Bytes(out), stderr |-> stderrOf(c),
      code |-> c] :
        out \in FuzzyOutputs(lines), c \in ExitCodes} \cup {notSpawned}

\* rgProcess.stdout.on('data'): a chunk of the output arrives
RgStdoutData ==
    /\ pc = "rg" /\ rgProcess.state = "running"
    /\ \E n \in 1..Len(rgProcess.stdout) : rgProcess' = readStdout(rgProcess, n)
    /\ UNCHANGED <<pc, query, filenameFilter, fzfFilenameProcess, fzfProcess,
                   lineMapping, filteredMapping, outcome, spawned, uncaught>>

\* rgProcess.stderr.on('data')
RgStderrData ==
    /\ pc = "rg" /\ rgProcess.state = "running" /\ rgProcess.stderr # <<>>
    /\ rgProcess' = readStderr(rgProcess)
    /\ UNCHANGED <<pc, query, filenameFilter, fzfFilenameProcess, fzfProcess,
                   lineMapping, filteredMapping, outcome, spawned, uncaught>>

\* the grep process exits once its streams have ended
RgExit ==
    /\ pc = "rg" /\ rgProcess.state = "running"
    /\ rgProcess.stdout = <<>> /\ rgProcess.stderr = <<>>
    /\ rgProcess' = exited(rgProcess)
    /\ UNCHANGED <<pc, query, filenameFilter, fzfFilenameProcess, fzfProcess,
                   lineMapping, filteredMapping, outcome, spawned, uncaught>>

\* the grep process could not be spawned: 'error' is emitted, no listener is
\* registered for it, it is thrown as an uncaught exception, and 'close' is
\* never emitted
RgSpawnError ==
    /\ pc = "rg" /\ rgProcess.state = "failed"
    /\ rgProcess' = errored(rgProcess)
    /\ uncaught' = Append(uncaught, [kind |-> "uncaughtException",
                                     prefix |-> "spawn rg", stderr |-> <<>>])
    /\ UNCHANGED <<pc, query, filenameFilter, fzfFilenameProcess, fzfProcess,
                   lineMapping, filteredMapping, outcome, spawned>>

\* rgProcess.on('close', async (rgCode) => { ... }) up to its first await or
\* to its end
RgOnClose ==
    /\ pc = "rg" /\ rgProcess.state = "closed"
    /\ UNCHANGED <<query, filenameFilter, rgProcess, uncaught>>
    /\ IF ~acceptedCode(rgProcess.code)
       THEN /\ outcome' = rejected("ripgrep failed: ", rgProcess.error)
            /\ pc' = "done"
            /\ UNCHANGED <<fzfFilenameProcess, fzfProcess, lineMapping,
                           filteredMapping, spawned>>
       ELSE IF noCandidates(rgProcess.output)
       THEN /\ outcome' = resolved(<<>>)
            /\ pc' = "done"
            /\ UNCHANGED <<fzfFilenameProcess, fzfProcess, lineMapping,
                           filteredMapping, spawned>>
       ELSE \E mapping \in {lineMappingOf(rgProcess.output)} :
                /\ lineMapping' = mapping
                /\ filteredMapping' = mapping
                /\ IF needsFilenameStage(filenameFilter)
                   THEN /\ \E run \in FuzzyRuns(filenamesOf(mapping)) :
                               fzfFilenameProcess' =
                                   spawn(run, join(filenamesOf(mapping), "\n"))
                        /\ spawned' = Append(spawned, "filename")
                        /\ pc' = "filename"
                        /\ UNCHANGED <<fzfProcess, outcome>>
                   ELSE /\ \E run \in FuzzyRuns(contentLinesOf(mapping)) :
                               ContentStage(mapping, run)
                        /\ UNCHANGED fzfFilenameProcess

FzfFilenameStdoutData ==
    /\ pc = "filename" /\ fzfFilenameProcess.state = "running"
    /\ \E n \in 1..Len(fzfFilenameProcess.stdout) :
           fzfFilenameProcess' = readStdout(fzfFilenameProcess, n)
    /\ UNCHANGED <<pc, query, filenameFilter, rgProcess, fzfProcess,
                   lineMapping, filteredMapping, outcome, spawned, uncaught>>

FzfFilenameStderrData ==
    /\ pc = "filename" /\ fzfFilenameProcess.state = "running"
    /\ fzfFilenameProcess.stderr # <<>>
    /\ fzfFilenameProcess' = readStderr(fzfFilenameProcess)
    /\ UNCHANGED <<pc, query, filenameFilter, rgProcess, fzfProcess,
                   lineMapping, filteredMapping, outcome, spawned, uncaught>>

FzfFilenameExit ==
    /\ pc = "filename" /\ fzfFilenameProcess.state = "running"
    /\ fzfFilenameProcess.stdout = <<>> /\ fzfFilenameProcess.stderr = <<>>
    /\ fzfFilenameProcess' = exited(fzfFilenameProcess)
    /\ UNCHANGED <<pc, query, filenameFilter, rgProcess, fzfProcess,
                   lineMapping, filteredMapping, outcome, spawned, uncaught>>

FzfFilenameSpawnError ==
    /\ pc = "filename" /\ fzfFilenameProcess.state = "failed"
    /\ fzfFilenameProcess' = errored(fzfFilenameProcess)
    /\ uncaught' = Append(uncaught, [kind |-> "uncaughtException",
                                     prefix |-> "spawn fzf", stderr |-> <<>>])
    /\ UNCHANGED <<pc, query, filenameFilter, rgProcess, fzfProcess,
                   lineMapping, filteredMapping, outcome, spawned>>

\* fzfFilenameProcess.on('close', ...) and, once the awaited promise is
\* settled, the rest of the grep close handler. rejectFilename makes the
\* await throw inside the async handler, whose promise nobody handles.
FzfFilenameOnClose ==
    /\ pc = "filename" /\ fzfFilenameProcess.state = "closed"
    /\ UNCHANGED <<query, filenameFilter, rgProcess, fzfFilenameProcess,
                   lineMapping>>
    /\ IF ~acceptedCode(fzfFilenameProcess.code)
       THEN /\ uncaught' =
                   Append(uncaught,
                          [kind |-> "unhandledRejection",
                           prefix |-> "fzf filename filter failed: ",
                           stderr |-> fzfFilenameProcess.error])
            /\ pc' = "done"
            /\ UNCHANGED <<fzfProcess, filteredMapping, outcome, spawned>>
       ELSE \E mapping \in {filterByFilenames(lineMapping,
                                                fzfFilenameProcess.output)} :
                /\ filteredMapping' = mapping
                /\ UNCHANGED uncaught
                /\ IF Len(mapping) = 0
                   THEN /\ outcome' = resolved(<<>>)
                        /\ pc' = "done"
                        /\ UNCHANGED <<fzfProcess, spawned>>
                   ELSE \E run \in FuzzyRuns(contentLinesOf(mapping)) :
                            ContentStage(mapping, run)

FzfStdoutData ==
    /\ pc = "content" /\ fzfProcess.state = "running"
    /\ \E n \in 1..Len(fzfProcess.stdout) :
           fzfProcess' = readStdout(fzfProcess, n)
    /\ UNCHANGED <<pc, query, filenameFilter, rgProcess, fzfFilenameProcess,
                   lineMapping, filteredMapping, outcome, spawned, uncaught>>

FzfStderrData ==
    /\ pc = "content" /\ fzfProcess.state = "running"
    /\ fzfProcess.stderr # <<>>
    /\ fzfProcess' = readStderr(fzfProcess)
    /\ UNCHANGED <<pc, query, filenameFilter, rgProcess, fzfFilenameProcess,
                   lineMapping, filteredMapping, outcome, spawned, uncaught>>

FzfExit ==
    /\ pc = "content" /\ fzfProcess.state = "running"
    /\ fzfProcess.stdout = <<>> /\ fzfProcess.stderr = <<>>
    /\ fzfProcess' = exited(fzfProcess)
    /\ UNCHANGED <<pc, query, filenameFilter, rgProcess, fzfFilenameProcess,
                   lineMapping, filteredMapping, outcome, spawned, uncaught>>

FzfSpawnError ==
    /\ pc = "content" /\ fzfProcess.state = "failed"
    /\ fzfProcess' = errored(fzfProcess)
    /\ uncaught' = Append(uncaught, [kind |-> "uncaughtException",
                                     prefix |-> "spawn fzf", stderr |-> <<>>])
    /\ UNCHANGED <<pc, query, filenameFilter, rgProcess, fzfFilenameProcess,
                   lineMapping, filteredMapping, outcome, spawned>>

\* fzfProcess.on('close', (fzfCode) => { ... })
FzfOnClose ==
    /\ pc = "content" /\ fzfProcess.state = "closed"
    /\ outcome' = IF ~acceptedCode(fzfProcess.code)
                  THEN rejected("fzf failed: ", fzfProcess.error)
                  ELSE resolved(matchBack(matchedLines(fzfProcess.output),
                                          filteredMapping))
    /\ pc' = "done"
    /\ UNCHANGED <<query, filenameFilter, rgProcess, fzfFilenameProcess,
                   fzfProcess, lineMapping, filteredMapping, spawned,
                   uncaught>>

(***************************************************************************)
(* The functions on text, applied to a text on their own.                  *)
(***************************************************************************)
VARIABLES
    givenText,       \* the text a function is applied to
    stripped,        \* stripAnsiCodes(givenText)
    strippedTwice,   \* stripAnsiCodes(stripAnsiCodes(givenText))
    parsedLine,      \* parseSearchLine(givenText)
    textPc           \* what has been computed: "text", "stripped",
                     \* "strippedTwice" or "parsed"

textVars == <<givenText, stripped, strippedTwice, parsedLine, textPc>>

\* all texts over an alphabet of at most n characters
RECURSIVE TextsUpTo(_, _)
TextsUpTo(alphabet, n) ==
    IF n = 0 THEN {<<>>}
    ELSE LET shorter == TextsUpTo(alphabet, n - 1)
         IN  shorter \cup
             {Append(t, c) : t \in {x \in shorter : Len(x) = n - 1},
                             c \in alphabet}

\* the characters colour codes are made of
AnsiAlphabet == {ESC, "[", "1", ";", "m"}

AnsiTexts(maxLen) == TextsUpTo(AnsiAlphabet, maxLen)

\* lines file:digits:content whose content holds colons, spaces and a
\* carriage return, and any short text of letters, colons and digits
LineFiles == {<<"a">>, <<"a", "b">>, <<" ", "b">>}
LineDigits == {<<"1">>, <<"1", "0">>, <<"0", "0", "7">>}
LineContents(maxLen) == TextsUpTo({"a", ":", " ", "\r"}, maxLen)

FormedLines(maxLen) ==
    {((f \o <<":">>) \o (d \o <<":">>)) \o c :
        f \in LineFiles, d \in LineDigits, c \in LineContents(maxLen)}

OtherLines(maxLen) == TextsUpTo({"a", ":", "1"}, maxLen)

ParseTexts(maxContentLen, maxOtherLen) ==
    FormedLines(maxContentLen) \cup OtherLines(maxOtherLen)

TextInit(texts) ==
    /\ givenText \in texts
    /\ stripped = <<>>
    /\ strippedTwice = <<>>
    /\ parsedLine = null
    /\ textPc = "text"

\* stripAnsiCodes(text)
StripAnsiCodes ==
    /\ textPc = "text"
    /\ stripped' = stripAnsiCodes(givenText)
    /\ textPc' = "stripped"
    /\ UNCHANGED <<givenText, strippedTwice, parsedLine>>

\* stripAnsiCodes applied to what it returned
StripAnsiCodesAgain ==
    /\ textPc = "stripped"
    /\ strippedTwice' = stripAnsiCodes(stripped)
    /\ textPc' = "strippedTwice"
    /\ UNCHANGED <<givenText, stripped, parsedLine>>

\* parseSearchLine(text)
ParseSearchLine ==
    /\ textPc = "text"
    /\ parsedLine' = parseSearchLine(givenText)
    /\ textPc' = "parsed"
    /\ UNCHANGED <<givenText, stripped, strippedTwice>>

(***************************************************************************)
(* The session: the search view (the webview of SearchInputViewProvider),  *)
(* the listeners registered by activate() and the pager they share.        *)
(***************************************************************************)
VARIABLES
    searchInput,         \* searchInput.value
    filenameInput,       \* filenameInput.value
    debounceTimer,       \* the timer the last input event has set, 0
                         \* before the first
    timers,              \* the timers set by setTimeout(search, 300) that
                         \* are neither cleared nor fired
    messageText,         \* message.textContent, what the user reads
    toExtension,         \* the messages posted by the webview, not yet
                         \* received by the extension
    toWebview,           \* the messages posted by showMessage, not yet
                         \* received by the webview
    posted,              \* the number of messages the webview has posted
    workspaceFolders,    \* vscode.workspace.workspaceFolders
    handlers,            \* the invocations of the onSearch listener, in the
                         \* order of their start: where each one is, and the
                         \* promise executeSearch returned to it
    lastHandled,         \* the type of the last message the extension
                         \* received
    holder               \* the invocation whose setAllResults filled the
                         \* pager, 0 after clear()

sessionVars ==
    <<searchInput, filenameInput, debounceTimer, timers, messageText,
      toExtension, toWebview, posted, workspaceFolders, handlers, lastHandled, holder>>

\* the texts shown by showMessage, each by its fixed part
NoWorkspaceFolderOpen == "No workspace folder open"
PleaseEnter == "Please enter a search query or filename filter"
BinariesNotAvailable == "Required binaries not available"
Searching == "Searching..."
NoResultsFound == "No results found"
Found == "Found "
SearchFailed == "Search failed: "
Showing == "Showing "

\* executeSearch has not been called
notCalled ==
    [state |-> "none", results |-> <<>>, prefix |-> "", stderr |-> <<>>]

\* this._view?.webview.postMessage({ type: 'message', text })
showMessage(queue, text) == Append(queue, text)

\* !workspaceFolder, with workspaceFolder = workspaceFolders?.[0]
noWorkspaceFolder(folders) == Len(folders) = 0

\* !query.trim() && !filter.trim()
nothingToSearch(q, filter) == trim(q) = <<>> /\ trim(filter) = <<>>

\* the invocations in flight when a new one starts have been superseded
supersede(hs) ==
    [i \in 1..Len(hs) |->
        IF hs[i].at # "returned" THEN [hs[i] EXCEPT !.superseded = TRUE]
        ELSE hs[i]]

SessionInit(folders) ==
    /\ searchInput = <<>>
    /\ filenameInput = <<>>
    /\ debounceTimer = 0
    /\ timers = {}
    /\ messageText = ""
    /\ toExtension = <<>>
    /\ toWebview = <<>>
    /\ posted = 0
    /\ workspaceFolders \in folders
    /\ handlers = <<>>
    /\ lastHandled = "none"
    /\ holder = 0

\* what the user types in the two fields
FieldQueries == {<<>>, <<" ">>, <<" ", "x">>}
FieldFilters == {<<>>, <<"a">>}

\* faulty variant: the timer stays pending
clearNothing(pendingTimers, id) == pendingTimers

\* clearTimeout(id): the timer is no longer pending; nothing happens for an
\* id that is undefined or whose timer has fired
clearTimeout(pendingTimers, id) == pendingTimers \ {id}

\* the id setTimeout returns: one that no pending timer has
newTimer(pendingTimers) ==
    CHOOSE id \in 1..(Cardinality(pendingTimers) + 1) :
        /\ id \notin pendingTimers
        /\ \A lower \in 1..(id - 1) : lower \in pendingTimers

\* the 'input' listeners of the two fields: the pending search is cancelled
\* and a new one scheduled
SearchInputEvent(value) ==
    /\ posted < MaxRequests
    /\ Cardinality(timers) <= MaxPending
    /\ value # searchInput
    /\ searchInput' = value
    /\ LET cleared == clearTimeout(timers, debounceTimer)
       IN  /\ debounceTimer' = newTimer(cleared)
           /\ timers' = cleared \cup {newTimer(cleared)}
    /\ UNCHANGED <<filenameInput, messageText, toExtension, toWebview, posted,
                   workspaceFolders, handlers, lastHandled, holder>>

FilenameInputEvent(value) ==
    /\ posted < MaxRequests
    /\ Cardinality(timers) <= MaxPending
    /\ value # filenameInput
    /\ filenameInput' = value
    /\ LET cleared == clearTimeout(timers, debounceTimer)
       IN  /\ debounceTimer' = newTimer(cleared)
           /\ timers' = cleared \cup {newTimer(cleared)}
    /\ UNCHANGED <<searchInput, messageText, toExtension, toWebview, posted,
                   workspaceFolders, handlers, lastHandled, holder>>

\* faulty variant: search() posts 'search' whatever the fields hold
WebviewSearchAlways ==
    /\ \E id \in timers : timers' = timers \ {id}
    /\ UNCHANGED debounceTimer
    /\ posted' = posted + 1
    /\ messageText' = Searching
    /\ toExtension' = Append(toExtension,
                             [type |-> "search", query |-> trim(searchInput),
                              filenameFilter |-> trim(filenameInput)])
    /\ UNCHANGED <<searchInput, filenameInput, toWebview, workspaceFolders,
                   handlers, lastHandled, holder>>

\* search() of the webview, run when a timer fires
WebviewSearch ==
    /\ \E id \in timers : timers' = timers \ {id}
    /\ UNCHANGED debounceTimer
    /\ posted' = posted + 1
    /\ LET q == trim(searchInput)
           f == trim(filenameInput)
       IN  IF q # <<>> \/ f # <<>>
           THEN /\ messageText' = Searching
                /\ toExtension' =
                       Append(toExtension,
                              [type |-> "search", query |-> q,
                               filenameFilter |-> f])
           ELSE /\ messageText' = ""
                /\ toExtension' =
                       Append(toExtension,
                              [type |-> "clear", query |-> <<>>,
                               filenameFilter |-> <<>>])
    /\ UNCHANGED <<searchInput, filenameInput, toWebview, workspaceFolders,
                   handlers, lastHandled, holder>>

\* window.addEventListener('message', ...) of the webview, for a message of
\* type 'message'
WebviewOnMessage ==
    /\ toWebview # <<>>
    /\ messageText' = Head(toWebview)
    /\ toWebview' = Tail(toWebview)
    /\ UNCHANGED <<searchInput, filenameInput, debounceTimer, timers,
                   toExtension,
                   posted, workspaceFolders, handlers, lastHandled, holder>>

\* a message of type 'search' with any query and filter reaches the
\* extension: onDidReceiveMessage takes whatever it is sent
AnySearchMessage(q, filter) ==
    /\ posted < MaxRequests
    /\ posted' = posted + 1
    /\ toExtension' = Append(toExtension,
                             [type |-> "search", query |-> q,
                              filenameFilter |-> filter])
    /\ UNCHANGED <<searchInput, filenameInput, debounceTimer, timers,
                   messageText,
                   toWebview, workspaceFolders, handlers, lastHandled, holder>>

\* the onSearch listener up to its first await
OnSearchListener(q, filter) ==
    LET h == [query |-> q, filter |-> filter,
              workspacePath |-> IF noWorkspaceFolder(workspaceFolders)
                                THEN <<>> ELSE workspaceFolders[1],
              at |-> "returned", binaryPaths |-> "unresolved",
              promise |-> notCalled, superseded |-> FALSE]
    IN  IF noWorkspaceFolder(workspaceFolders)
        THEN /\ toWebview' = showMessage(toWebview, NoWorkspaceFolderOpen)
             /\ handlers' = Append(supersede(handlers), h)
        ELSE IF nothingToSearch(q, filter)
        THEN /\ toWebview' = showMessage(toWebview, PleaseEnter)
             /\ handlers' = Append(supersede(handlers), h)
        ELSE /\ handlers' = Append(supersede(handlers),
                                   [h EXCEPT !.at = "resolveBinaryPaths"])
             /\ UNCHANGED toWebview

\* onDidReceiveMessage, case 'search': handleSearch fires onSearch
OnSearch ==
    /\ toExtension # <<>> /\ Head(toExtension).type = "search"
    /\ toExtension' = Tail(toExtension)
    /\ lastHandled' = "search"
    /\ OnSearchListener(Head(toExtension).query,
                        Head(toExtension).filenameFilter)
    /\ UNCHANGED <<searchInput, filenameInput, debounceTimer, timers,
                   messageText,
                   posted, workspaceFolders, holder>>
    /\ UNCHANGED pagerVars

\* onDidReceiveMessage, case 'clear': handleClear fires onClear, whose
\* listener calls resultsProvider.clear()
OnClear ==
    /\ toExtension # <<>> /\ Head(toExtension).type = "clear"
    /\ toExtension' = Tail(toExtension)
    /\ lastHandled' = "clear"
    /\ Clear
    /\ holder' = 0
    /\ UNCHANGED <<searchInput, filenameInput, debounceTimer, timers,
                   messageText,
                   toWebview, posted, workspaceFolders, handlers>>

\* faulty variant: the listener clears the pager before it knows that the
\* binaries are missing
BinariesMissingClears(i) ==
    /\ handlers' = [handlers EXCEPT ![i].at = "returned",
                                    ![i].binaryPaths = "null"]
    /\ toWebview' = showMessage(toWebview, BinariesNotAvailable)
    /\ Clear
    /\ holder' = 0

\* the onSearch listener from the return of resolveBinaryPaths with null to
\* its end
BinariesMissing(i) ==
    /\ handlers' = [handlers EXCEPT ![i].at = "returned",
                                    ![i].binaryPaths = "null"]
    /\ toWebview' = showMessage(toWebview, BinariesNotAvailable)
    /\ UNCHANGED pagerVars
    /\ UNCHANGED holder

\* the onSearch listener from the return of resolveBinaryPaths, the binaries
\* found or not, to its await of executeSearch or to its end
BinariesResolved ==
    /\ \E i \in 1..Len(handlers) :
           /\ handlers[i].at = "resolveBinaryPaths"
           /\ \/ BinariesMissing(i)
              \/ /\ Clear
                 /\ holder' = 0
                 /\ toWebview' = showMessage(toWebview, Searching)
                 /\ handlers' = [handlers EXCEPT ![i].at = "executeSearch",
                                                 ![i].binaryPaths = "paths",
                                                 ![i].promise = pending]
    /\ UNCHANGED <<searchInput, filenameInput, debounceTimer, timers,
                   messageText,
                   toExtension, posted, workspaceFolders, lastHandled>>

\* what executeSearch returns to the listener: no line, lines of one batch
\* or of more, or a failure
SessionPattern == <<LineB, LineDot, LineAbs, LineA>>

SettledSearches ==
    {resolved(<<>>), resolved(<<LineB, LineA>>),
     resolved(Cycle(SessionPattern, batchSize + MaxExtra)),
     rejected("ripgrep failed: ", ErrorText)}

\* faulty variant: the lines are added to those of the pager
SetAllResultsMerges(rawResults, workspace) ==
    SetAllResults(allRawResults \o rawResults, workspace)

\* resultsProvider.setAllResults(rawResults, workspacePath) of the listener
ListenerSetAllResults(rawResults, workspace) ==
    SetAllResults(rawResults, workspace)

\* the onSearch listener from the settling of the promise of executeSearch
\* to its end
SearchSettled ==
    /\ \E i \in 1..Len(handlers) : \E out \in SettledSearches :
           /\ handlers[i].at = "executeSearch"
           /\ handlers' = [handlers EXCEPT ![i].at = "returned",
                                           ![i].promise = out]
           /\ IF out.state = "rejected"
              THEN /\ toWebview' = showMessage(toWebview, SearchFailed)
                   /\ UNCHANGED pagerVars
                   /\ UNCHANGED holder
              ELSE IF Len(out.results) = 0
              THEN /\ toWebview' = showMessage(toWebview, NoResultsFound)
                   /\ UNCHANGED pagerVars
                   /\ UNCHANGED holder
              ELSE /\ ListenerSetAllResults(out.results,
                                            handlers[i].workspacePath)
                   /\ holder' = i
                   /\ toWebview' = showMessage(toWebview, Found)
    /\ UNCHANGED <<searchInput, filenameInput, debounceTimer, timers,
                   messageText,
                   toExtension, posted, workspaceFolders, lastHandled>>

\* the command where.loadMore
LoadMore ==
    /\ Len(toWebview) < MaxUnread
    /\ LoadMoreCommand
    /\ toWebview' = showMessage(toWebview, Showing)
    /\ UNCHANGED <<searchInput, filenameInput, debounceTimer, timers,
                   messageText,
                   toExtension, posted, workspaceFolders, handlers,
                   lastHandled, holder>>

(***************************************************************************)
(* The command line of grep, built by executeSearch before it spawns it.   *)
(***************************************************************************)
VARIABLES
    rgArgs,              \* the setting where.rgArgs
    respectGitignore,
    gitignoreGlobs,      \* what convertGitignoreToRgGlobs(cwd) returns
    allArgs              \* the arguments grep is spawned with, none before

argsVars == <<rgArgs, respectGitignore, gitignoreGlobs, allArgs>>

LineNumberFlag ==
    <<"-", "-", "l", "i", "n", "e", "-", "n", "u", "m", "b", "e", "r">>

\* '\\S': a line with at least one character that is not white space
NonBlankPattern == <<"\\", "S">>

\* allArgs = [...baseArgs, ...gitignoreGlobs, '\\S']
grepArguments(extra, respect, globs) ==
    LET userArgs ==
            IF trim(extra) # <<>>
            THEN SelectSeq(split(extra, " "), LAMBDA arg : trim(arg) # <<>>)
            ELSE <<>>
        baseArgs == <<LineNumberFlag>> \o userArgs
    IN  baseArgs \o (IF respect THEN globs ELSE <<>>) \o <<NonBlankPattern>>

\* the settings: texts of dashes, spaces and tabs
RgArgsTexts(maxLen) == TextsUpTo({"-", " ", "\t"}, maxLen)

\* the exclusions of a workspace: those of the version control directory,
\* after those of its .gitignore if it has one
GitGlobs == <<<<"-", "g">>, <<"!", ".", "g", "i", "t">>>>

GlobLists == {GitGlobs, <<<<"-", "g">>, <<"!", "o", "u", "t">>>> \o GitGlobs}

ArgsInit(texts, flags, globs) ==
    /\ rgArgs \in texts
    /\ respectGitignore \in flags
    /\ gitignoreGlobs \in globs
    /\ allArgs = <<>>

\* no command line is being built
NoArgs == ArgsInit({<<>>}, {TRUE}, {GitGlobs})

\* executeSearch from "Build ripgrep arguments" to the spawning of grep
BuildArguments ==
    /\ allArgs = <<>>
    /\ allArgs' = grepArguments(rgArgs, respectGitignore, gitignoreGlobs)
    /\ UNCHANGED <<rgArgs, respectGitignore, gitignoreGlobs>>

(***************************************************************************)
(* The specifications.                                                     *)
(***************************************************************************)
vars == <<pagerVars, searchVars, textVars, sessionVars, argsVars>>

\* nothing has been typed, searched or built
Idle == SessionInit({<<>>}) /\ NoArgs

Init == PagerInit /\ SearchInit /\ TextInit({<<>>}) /\ Idle

PagerNext ==
    \/ Clear /\ UNCHANGED <<searchVars, textVars, sessionVars, argsVars>>
    \/ \E c \in SetAllCalls :
           SetAllResults(c[1], c[2]) /\ UNCHANGED <<searchVars, textVars, sessionVars, argsVars>>
    \/ \E k \in Counts : LoadMoreResults(k) /\ UNCHANGED <<searchVars, textVars, sessionVars, argsVars>>
    \/ LoadMoreCommand /\ UNCHANGED <<searchVars, textVars, sessionVars, argsVars>>

\* the pager under any sequence of clear, setAllResults and loadMoreResults
\* with a count >= 0
SpecPager == Init /\ [][PagerNext]_vars

\* loadMoreResults with a negative count, passed at most once to a result set
LoadMoreNegative ==
    /\ \E k \in NegativeCounts :
           /\ ~negativeCount
           /\ LoadMoreResults(k)
    /\ UNCHANGED <<searchVars, textVars, sessionVars, argsVars>>

PagerAnyNext ==
    \/ PagerNext
    \/ LoadMoreNegative

\* the same with any integer count
SpecPagerAny == Init /\ [][PagerAnyNext]_vars

SearchNext ==
    \/ \E q \in Queries, f \in Filters, run \in RgRuns :
           ExecuteSearch(q, f, run) /\ UNCHANGED <<pagerVars, textVars, sessionVars, argsVars>>
    \/ RgStdoutData /\ UNCHANGED <<pagerVars, textVars, sessionVars, argsVars>>
    \/ RgStderrData /\ UNCHANGED <<pagerVars, textVars, sessionVars, argsVars>>
    \/ RgExit /\ UNCHANGED <<pagerVars, textVars, sessionVars, argsVars>>
    \/ RgSpawnError /\ UNCHANGED <<pagerVars, textVars, sessionVars, argsVars>>
    \/ RgOnClose /\ UNCHANGED <<pagerVars, textVars, sessionVars, argsVars>>
    \/ FzfFilenameStdoutData /\ UNCHANGED <<pagerVars, textVars, sessionVars, argsVars>>
    \/ FzfFilenameStderrData /\ UNCHANGED <<pagerVars, textVars, sessionVars, argsVars>>
    \/ FzfFilenameExit /\ UNCHANGED <<pagerVars, textVars, sessionVars, argsVars>>
    \/ FzfFilenameSpawnError /\ UNCHANGED <<pagerVars, textVars, sessionVars, argsVars>>
    \/ FzfFilenameOnClose /\ UNCHANGED <<pagerVars, textVars, sessionVars, argsVars>>
    \/ FzfStdoutData /\ UNCHANGED <<pagerVars, textVars, sessionVars, argsVars>>
    \/ FzfStderrData /\ UNCHANGED <<pagerVars, textVars, sessionVars, argsVars>>
    \/ FzfExit /\ UNCHANGED <<pagerVars, textVars, sessionVars, argsVars>>
    \/ FzfSpawnError /\ UNCHANGED <<pagerVars, textVars, sessionVars, argsVars>>
    \/ FzfOnClose /\ UNCHANGED <<pagerVars, textVars, sessionVars, argsVars>>

\* one search from its start to the settling of its promise, under any
\* behaviour of the grep and fuzzy processes
SpecSearch == Init /\ [][SearchNext]_vars

\* what the event loop does once a search is started: it delivers the data,
\* 'close' and 'error' events of the processes and runs their handlers
SearchEvents ==
    /\ \/ RgStdoutData \/ RgStderrData \/ RgExit \/ RgSpawnError
       \/ RgOnClose
       \/ FzfFilenameStdoutData \/ FzfFilenameStderrData \/ FzfFilenameExit
       \/ FzfFilenameSpawnError \/ FzfFilenameOnClose
       \/ FzfStdoutData \/ FzfStderrData \/ FzfExit \/ FzfSpawnError
       \/ FzfOnClose
    /\ UNCHANGED <<pagerVars, textVars, sessionVars, argsVars>>

\* one line of one file
OneFile == <<"a", ":", "1", ":", "x", "\n">>

\* the searches followed to their end: with and without a query and a
\* filter, grep printing nothing or one line, with any exit code, or not
\* spawned
LiveQueries == {<<>>, <<"x">>}
LiveFilters == {<<>>, <<"a">>}
LiveRgRuns ==
    {[spawns |-> TRUE, stdout |-> out, stderr |-> stderrOf(c), code |-> c] :
        out \in {NoOutput, OneFile}, c \in ExitCodes} \cup {notSpawned}

SearchLiveNext ==
    \/ \E q \in LiveQueries, f \in LiveFilters, run \in LiveRgRuns :
           ExecuteSearch(q, f, run)
               /\ UNCHANGED <<pagerVars, textVars, sessionVars, argsVars>>
    \/ RgStdoutData
           /\ UNCHANGED <<pagerVars, textVars, sessionVars, argsVars>>
    \/ RgStderrData
           /\ UNCHANGED <<pagerVars, textVars, sessionVars, argsVars>>
    \/ RgExit
           /\ UNCHANGED <<pagerVars, textVars, sessionVars, argsVars>>
    \/ RgSpawnError
           /\ UNCHANGED <<pagerVars, textVars, sessionVars, argsVars>>
    \/ RgOnClose
           /\ UNCHANGED <<pagerVars, textVars, sessionVars, argsVars>>
    \/ FzfFilenameStdoutData
           /\ UNCHANGED <<pagerVars, textVars, sessionVars, argsVars>>
    \/ FzfFilenameStderrData
           /\ UNCHANGED <<pagerVars, textVars, sessionVars, argsVars>>
    \/ FzfFilenameExit
           /\ UNCHANGED <<pagerVars, textVars, sessionVars, argsVars>>
    \/ FzfFilenameSpawnError
           /\ UNCHANGED <<pagerVars, textVars, sessionVars, argsVars>>
    \/ FzfFilenameOnClose
           /\ UNCHANGED <<pagerVars, textVars, sessionVars, argsVars>>
    \/ FzfStdoutData
           /\ UNCHANGED <<pagerVars, textVars, sessionVars, argsVars>>
    \/ FzfStderrData
           /\ UNCHANGED <<pagerVars, textVars, sessionVars, argsVars>>
    \/ FzfExit
           /\ UNCHANGED <<pagerVars, textVars, sessionVars, argsVars>>
    \/ FzfSpawnError
           /\ UNCHANGED <<pagerVars, textVars, sessionVars, argsVars>>
    \/ FzfOnClose
           /\ UNCHANGED <<pagerVars, textVars, sessionVars, argsVars>>

\* one search whose processes go on to their end and whose events are all
\* delivered: a process that was spawned prints its output and closes, and
\* the event loop runs the listener of every event that was emitted
SpecSearchLive == Init /\ [][SearchLiveNext]_vars /\ WF_vars(SearchEvents)

StripNext ==
    \/ StripAnsiCodes /\ UNCHANGED <<pagerVars, searchVars, sessionVars, argsVars>>
    \/ StripAnsiCodesAgain /\ UNCHANGED <<pagerVars, searchVars, sessionVars, argsVars>>

\* stripAnsiCodes applied once and twice to any text of colour code characters
StripInit ==
    PagerInit /\ SearchInit /\ TextInit(AnsiTexts(MaxAnsiLen)) /\ Idle

SpecStrip == StripInit /\ [][StripNext]_vars

ParseNext == ParseSearchLine /\ UNCHANGED <<pagerVars, searchVars, sessionVars, argsVars>>

\* parseSearchLine applied to any of the lines
ParseInit ==
    /\ PagerInit /\ SearchInit /\ Idle
    /\ TextInit(ParseTexts(MaxContentLen, MaxOtherLen))

SpecParse == ParseInit /\ [][ParseNext]_vars

SessionNext ==
    \/ \E value \in FieldQueries :
           SearchInputEvent(value)
               /\ UNCHANGED <<pagerVars, searchVars, textVars, argsVars>>
    \/ \E value \in FieldFilters :
           FilenameInputEvent(value)
               /\ UNCHANGED <<pagerVars, searchVars, textVars, argsVars>>
    \/ WebviewSearch /\ UNCHANGED <<pagerVars, searchVars, textVars, argsVars>>
    \/ WebviewOnMessage /\ UNCHANGED <<pagerVars, searchVars, textVars, argsVars>>
    \/ OnSearch /\ UNCHANGED <<searchVars, textVars, argsVars>>
    \/ OnClear /\ UNCHANGED <<searchVars, textVars, argsVars>>
    \/ BinariesResolved /\ UNCHANGED <<searchVars, textVars, argsVars>>
    \/ SearchSettled /\ UNCHANGED <<searchVars, textVars, argsVars>>
    \/ LoadMore /\ UNCHANGED <<searchVars, textVars, argsVars>>

Workspaces == {<<>>, <<<<"/", "w">>>>}

SessionStart ==
    /\ PagerInit /\ SearchInit /\ TextInit({<<>>}) /\ NoArgs
    /\ SessionInit(Workspaces)

\* the view, the listeners and the pager, with or without a workspace folder,
\* the searches ending in any order
SpecSession == SessionStart /\ [][SessionNext]_vars

\* the searches asked for by 'search' messages of any query and filter
AnyQueries == {<<>>, <<" ">>, <<"x">>}
AnyFilters == {<<>>, <<"\t">>, <<"a">>}

ListenersNext ==
    \/ \E q \in AnyQueries, f \in AnyFilters :
           AnySearchMessage(q, f)
               /\ UNCHANGED <<pagerVars, searchVars, textVars, argsVars>>
    \/ WebviewOnMessage /\ UNCHANGED <<pagerVars, searchVars, textVars, argsVars>>
    \/ OnSearch /\ UNCHANGED <<searchVars, textVars, argsVars>>
    \/ BinariesResolved /\ UNCHANGED <<searchVars, textVars, argsVars>>
    \/ SearchSettled /\ UNCHANGED <<searchVars, textVars, argsVars>>

\* the onSearch listener under 'search' messages of any query and filter,
\* those that search() never posts included
SpecListeners == SessionStart /\ [][ListenersNext]_vars

ArgsNext ==
    BuildArguments /\ UNCHANGED <<pagerVars, searchVars, textVars, sessionVars>>

ArgsStart ==
    /\ PagerInit /\ SearchInit /\ TextInit({<<>>}) /\ SessionInit({<<>>})
    /\ ArgsInit(RgArgsTexts(MaxArgsLen), BOOLEAN, GlobLists)

\* the command line built from any setting
SpecArgs == ArgsStart /\ [][ArgsNext]_vars

(***************************************************************************)
(* What the pager should hold, stated from the raw lines alone.            *)
(***************************************************************************)
\* the SearchResults of the first n lines of raw
RevealedResults(raw, n, workspace) ==
    [i \in 1..n |-> searchResultOf(raw[i], workspace)]

\* the number of positions of seq that hold x
CountIn(seq, x) == Cardinality({i \in 1..Len(seq) : seq[i] = x})

\* the number of matches of the grouping that equal x
RECURSIVE GroupedCount(_, _)
GroupedCount(map, x) ==
    IF map = <<>> THEN 0
    ELSE CountIn(Head(map).matches, x) + GroupedCount(Tail(map), x)

\* the number of matches held by the grouping
RECURSIVE MatchCount(_)
MatchCount(map) ==
    IF map = <<>> THEN 0 ELSE Len(Head(map).matches) + MatchCount(Tail(map))

MatchesOf(map) ==
    UNION {{map[g].matches[i] : i \in 1..Len(map[g].matches)} :
              g \in 1..Len(map)}

\* the first position of rev whose file is f
FirstOf(rev, f) ==
    CHOOSE i \in 1..Len(rev) :
        rev[i].file = f /\ \A j \in 1..(i - 1) : rev[j].file # f

\* the grouping of rev: one group per file, in the order of first occurrence,
\* each holding the results of its file in order
GroupingOf(rev) ==
    LET files == {rev[i].file : i \in 1..Len(rev)}
        rank(f) ==
            Cardinality({g \in files : FirstOf(rev, g) <= FirstOf(rev, f)})
    IN  [k \in 1..Cardinality(files) |->
            LET f == CHOOSE f \in files : rank(f) = k
            IN  [file |-> f,
                 matches |-> SelectSeq(rev, LAMBDA r : r.file = f)]]

\* C1: in every state reached by setAllResults, clear and loadMoreResults
\* with a count >= 0, the cursor is between 0 and the number of raw lines, and
\* the grouping holds exactly the results of the first currentlyDisplayed raw
\* lines: each as often as among these lines, each in the group of its file.
C1_PagerInvariant ==
    /\ 0 <= currentlyDisplayed
    /\ currentlyDisplayed <= Len(allRawResults)
    /\ LET rev == RevealedResults(allRawResults, currentlyDisplayed,
                                  workspacePath)
       IN  /\ \A x \in MatchesOf(results) \cup {rev[i] : i \in 1..Len(rev)} :
                  GroupedCount(results, x) = CountIn(rev, x)
           /\ \A g \in 1..Len(results) :
                  \A i \in 1..Len(results[g].matches) :
                      results[g].matches[i].file = results[g].file

\* C1 witness: part of a result set is revealed, in several groups, after
\* loadMoreResults has revealed some of it
C1_Witness ==
    /\ lastCall.op = "loadMoreResults"
    /\ batchSize < currentlyDisplayed
    /\ currentlyDisplayed < Len(allRawResults)
    /\ Len(results) > 1

\* C2 (as claimed): whatever integer is passed, loadMoreResults never lowers
\* the revealed count and never reveals more than the N lines of the set.
C2_AnyCountMonotonic ==
    [][lastCall'.op = "loadMoreResults" =>
          /\ getDisplayedResultCount' >= getDisplayedResultCount
          /\ MatchCount(results') <= Len(allRawResults')]_vars

\* C2 (amended): as long as every count passed since setAllResults is >= 0,
\* loadMoreResults never lowers the revealed count and the number of items
\* revealed in total never exceeds the N lines of the set.
C2_NonNegativeCountMonotonic ==
    [][(lastCall'.op = "loadMoreResults" /\ ~negativeCount') =>
          /\ getDisplayedResultCount' >= getDisplayedResultCount
          /\ MatchCount(results') <= Len(allRawResults')]_vars

\* C2 witness: a call with a count >= 0 has revealed further lines of a set
\* that no negative count was passed to
C2_Witness ==
    /\ lastCall.op = "loadMoreResults"
    /\ lastCall.count > 0
    /\ ~negativeCount
    /\ currentlyDisplayed > batchSize

\* C3: setAllResults leaves the total count at the size of the new list, the
\* revealed count at min(size, 100) and the grouping that of the first
\* min(size, 100) new lines, whatever the pager held; the load-more command
\* then reveals min(100, remaining) further lines.
C3_SetAllReplaces ==
    [][/\ lastCall'.op = "setAllResults" =>
              /\ getTotalResultCount' = lastCall'.count
              /\ getDisplayedResultCount' = Min(lastCall'.count, 100)
              /\ results' =
                     GroupingOf(RevealedResults(allRawResults',
                                                Min(lastCall'.count, 100),
                                                workspacePath'))
       /\ (lastCall'.op = "loadMoreResults" /\ lastCall'.count = loadMoreCount) =>
              getDisplayedResultCount' - getDisplayedResultCount =
                  Min(100, getTotalResultCount - getDisplayedResultCount)]_vars

\* C3 witness: setAllResults has replaced a set of more than two batches and
\* revealed the first batch of it
C3_Witness ==
    /\ lastCall.op = "setAllResults"
    /\ lastCall.count > 2 * 100
    /\ currentlyDisplayed = 100

\* C4: loadMoreResults(count), count a number of lines (>= 0), moves the
\* cursor by min(count, total - revealed) and returns true exactly if
\* revealed < total afterwards, which is the value of hasMoreResults() then.
C4_LoadMoreAdvance ==
    [][lastCall'.op = "loadMoreResults" =>
          /\ currentlyDisplayed' - currentlyDisplayed =
                 Min(lastCall'.count, Len(allRawResults) - currentlyDisplayed)
          /\ lastCall'.ret = (currentlyDisplayed' < Len(allRawResults'))
          /\ lastCall'.ret = hasMoreResults']_vars

\* C4 witness: a call has revealed fewer lines than remained and returned true
C4_Witness ==
    /\ lastCall.op = "loadMoreResults"
    /\ lastCall.count > 0
    /\ lastCall.ret
    /\ currentlyDisplayed = batchSize + lastCall.count

\* C5: loadMoreResults called with the cursor at the total, with any count,
\* returns false and leaves the raw lines, the cursor and the grouping as
\* they were.
C5_NoOpAtTotal ==
    [][(lastCall'.op = "loadMoreResults"
            /\ currentlyDisplayed = Len(allRawResults)) =>
          /\ lastCall'.ret = FALSE
          /\ UNCHANGED <<allRawResults, currentlyDisplayed, results>>]_vars

\* C5 witness: loadMoreResults has been called on an empty pager
C5_Witness ==
    /\ lastCall.op = "loadMoreResults"
    /\ Len(allRawResults) = 0
    /\ currentlyDisplayed = 0

\* C6: with R lines revealed, the tree shows one file item per file of the
\* first R lines, its match count is the number of these lines of that file,
\* its children are the matches of that file in raw-line order, and the file
\* items are in the order in which their first line was revealed.
C6_Grouping ==
    LET rev == RevealedResults(allRawResults, currentlyDisplayed,
                               workspacePath)
        items == SelectSeq(getChildren, LAMBDA it : it.type = "file")
    IN  /\ {items[g].filePath : g \in 1..Len(items)} =
               {rev[i].file : i \in 1..Len(rev)}
        /\ \A g \in 1..Len(items) :
               /\ items[g].matchCount =
                      Cardinality({i \in 1..Len(rev) :
                                      rev[i].file = items[g].filePath})
               /\ LET shown == getChildrenOf(items[g])
                      mine == SelectSeq(rev,
                                  LAMBDA r : r.file = items[g].filePath)
                  IN  /\ Len(shown) = Len(mine)
                      /\ \A i \in 1..Len(mine) :
                             /\ shown[i].line = mine[i].line
                             /\ shown[i].label = mine[i].content
        /\ \A g \in 1..Len(items) : \A h \in 1..Len(items) :
               g < h => FirstOf(rev, items[g].filePath)
                            < FirstOf(rev, items[h].filePath)

\* C6 witness: two groups of several matches each, whose lines alternate
C6_Witness ==
    /\ Len(results) >= 2
    /\ Len(results[1].matches) >= 2
    /\ Len(results[2].matches) >= 2
    /\ results[1].matches[1].line # results[1].matches[2].line

\* C7: after clear() the total count and the revealed count are 0, the
\* grouping is empty and hasMoreResults() is false.
C7_ClearEmpties ==
    lastCall.op = "clear" =>
        /\ getTotalResultCount = 0
        /\ getDisplayedResultCount = 0
        /\ results = <<>>
        /\ ~hasMoreResults

\* C7 witness: clear() has been called on a pager that has held results
C7_Witness == lastCall.op = "clear" /\ workspacePath # <<>>

(***************************************************************************)
(* What one search should do.                                              *)
(***************************************************************************)
SpawnOrders ==
    {<<>>, <<"rg">>, <<"rg", "filename">>, <<"rg", "content">>,
     <<"rg", "filename", "content">>}

WasSpawned(name) == \E i \in 1..Len(spawned) : spawned[i] = name

\* C8: within one executeSearch call the processes are spawned one after the
\* other: grep first, then a filename fuzzy process only if the filename
\* filter is not blank, then a content fuzzy process only if the query is not
\* blank and lines are left; each only once the one before it has closed, and
\* never more than three.
C8_SequentialSpawning ==
    /\ spawned \in SpawnOrders
    /\ Len(spawned) <= 3
    /\ WasSpawned("filename") =>
           /\ trim(filenameFilter) # <<>>
           /\ rgProcess.state = "closed"
    /\ WasSpawned("content") =>
           /\ trim(query) # <<>>
           /\ Len(filteredMapping) > 0
           /\ rgProcess.state = "closed"
           /\ WasSpawned("filename") => fzfFilenameProcess.state = "closed"
    /\ ~WasSpawned("filename") => fzfFilenameProcess = noProcess
    /\ ~WasSpawned("content") => fzfProcess = noProcess

\* C8 witness: a search that has run all three processes to their close
C8_Witness ==
    /\ spawned = <<"rg", "filename", "content">>
    /\ fzfProcess.state = "closed"
    /\ pc = "done"

FuzzyFailed(process) ==
    process.state = "closed" /\ ~(process.code \in {0, 1})

\* C9: once a fuzzy process, of the filename stage or of the content stage,
\* has closed with an exit code other than 0 and 1 and its close handler has
\* run, the promise of executeSearch is rejected and delivers no results.
C9_FuzzyFailureRejects ==
    (pc = "done" /\ (FuzzyFailed(fzfFilenameProcess) \/ FuzzyFailed(fzfProcess)))
        => (outcome.state = "rejected" /\ outcome.results = <<>>)

SpawnFailed(process) == process.state = "errored"

\* C10: once the grep or a fuzzy process has failed to spawn and its 'error'
\* event has been emitted, the promise of executeSearch is rejected: the
\* search is neither resolved as if nothing matched nor left pending.
C10_SpawnFailureSurfaces ==
    (SpawnFailed(rgProcess) \/ SpawnFailed(fzfFilenameProcess)
        \/ SpawnFailed(fzfProcess))
        => outcome.state = "rejected"

\* C11: once the grep process has closed with an exit code other than 0 and 1
\* and its close handler has run, the promise is rejected with the message
\* 'ripgrep failed: ' followed by all that grep wrote to stderr, as written;
\* no fuzzy process has been spawned and no result is delivered.
C11_GrepFailureRejects ==
    (pc = "done" /\ rgProcess.state = "closed"
         /\ ~(rgProcess.code \in {0, 1})) =>
        /\ outcome.state = "rejected"
        /\ outcome.prefix = "ripgrep failed: "
        /\ outcome.stderr = ErrorText
        /\ rgProcess.stderr = <<>>
        /\ outcome.results = <<>>
        /\ spawned = <<"rg">>

\* C11 witness: grep has printed lines that match and then failed
C11_Witness ==
    /\ pc = "done"
    /\ rgProcess.state = "closed"
    /\ rgProcess.code = 2
    /\ lineMappingOf(rgProcess.output) # <<>>
    /\ outcome.state = "rejected"

Processes == {rgProcess, fzfFilenameProcess, fzfProcess}

\* every process spawned has closed with the exit code 0 or 1
ClosedWithZeroOrOne ==
    \A process \in Processes :
        \/ process.state = "none"
        \/ process.state = "closed" /\ process.code \in {0, 1}

\* what a search delivers, from the texts the processes printed alone
ResultsOfOutputs ==
    LET candidates == lineMappingOf(rgProcess.output)
        kept == IF WasSpawned("filename")
                THEN filterByFilenames(candidates, fzfFilenameProcess.output)
                ELSE candidates
    IN  IF WasSpawned("content")
        THEN matchBack(matchedLines(fzfProcess.output), kept)
        ELSE fullLinesOf(kept)

\* C12: a search all of whose processes closed with 0 or 1 is never rejected:
\* it is resolved with a list that depends on what the processes printed and
\* not on which of the two codes each gave, and a process that gave 1 is
\* followed by the same stages as one that gave 0.
C12_ExitCodeOneIsNormal ==
    /\ (pc = "done" /\ ClosedWithZeroOrOne) =>
           /\ outcome.state = "resolved"
           /\ outcome.results = ResultsOfOutputs
    /\ (pc = "done" /\ ClosedWithZeroOrOne) =>
           /\ WasSpawned("filename") <=>
                  (trim(filenameFilter) # <<>>
                       /\ lineMappingOf(rgProcess.output) # <<>>)
           /\ WasSpawned("content") <=>
                  (trim(query) # <<>> /\ Len(filteredMapping) > 0)

\* C12 witness: all three processes closed with 1 and lines were delivered
C12_Witness ==
    /\ pc = "done"
    /\ rgProcess.code = 1 /\ rgProcess.state = "closed"
    /\ fzfFilenameProcess.code = 1 /\ fzfFilenameProcess.state = "closed"
    /\ fzfProcess.code = 1 /\ fzfProcess.state = "closed"
    /\ outcome.state = "resolved"
    /\ Len(outcome.results) >= 2

\* the files of the candidate lines, and the lines the filename fuzzy process
\* printed
CandidateFiles ==
    {fileOfLine(lineMapping[k].fullLine) : k \in 1..Len(lineMapping)}

\* the lines the filename fuzzy process printed, colour codes removed
PrintedFiles ==
    LET lines == split(fzfFilenameProcess.output, "\n")
    IN  {stripAnsiCodes(lines[k]) : k \in 1..Len(lines)}

\* C13: when the filename fuzzy process has closed normally having printed
\* none of the candidate files, the search is resolved with the empty list and
\* no content fuzzy process has been spawned, whatever the query.
C13_ShortCircuit ==
    (/\ pc = "done"
     /\ fzfFilenameProcess.state = "closed"
     /\ fzfFilenameProcess.code \in {0, 1}
     /\ PrintedFiles \cap CandidateFiles = {}) =>
        /\ trim(filenameFilter) # <<>>
        /\ outcome.state = "resolved"
        /\ outcome.results = <<>>
        /\ ~WasSpawned("content")
        /\ fzfProcess = noProcess

\* C13 witness: with a query that is not blank, the filename fuzzy process
\* printed a line that is no candidate file, and the search is over
C13_Witness ==
    /\ pc = "done"
    /\ trim(query) # <<>>
    /\ fzfFilenameProcess.state = "closed"
    /\ fzfFilenameProcess.code = 0
    /\ fzfFilenameProcess.output # <<>>
    /\ PrintedFiles \cap CandidateFiles = {}
    /\ Len(lineMapping) >= 2

\* the text of a line after its second colon
ContentAfterSecondColon(line) ==
    LET i == IndexFrom(line, ":", 1)
        j == IndexFrom(line, ":", i + 1)
    IN  Rest(line, j + 1)

\* a is b with some of its elements left out
IsSubsequence(a, b) ==
    \E pos \in [1..Len(a) -> 1..Len(b)] :
        /\ \A i \in 1..Len(a) : a[i] = b[pos[i]]
        /\ \A i \in 1..Len(a) : \A j \in 1..Len(a) :
               i < j => pos[i] < pos[j]

\* the lines the content fuzzy process printed, in the order printed, colour
\* codes removed
EmittedContents ==
    LET lines == split(fzfProcess.output, "\n")
    IN  [k \in 1..Len(lines) |-> stripAnsiCodes(lines[k])]

ResultContents ==
    [k \in 1..Len(outcome.results) |->
        ContentAfterSecondColon(outcome.results[k])]

\* C14: when the content fuzzy process has closed normally, the lines are
\* delivered in the order in which the process printed their contents: the
\* contents of the results, in result order, are printed lines in printed
\* order.
C14_RelevanceOrder ==
    (/\ pc = "done"
     /\ fzfProcess.state = "closed"
     /\ fzfProcess.code \in {0, 1}) =>
        /\ outcome.state = "resolved"
        /\ IsSubsequence(ResultContents, EmittedContents)

\* C14 witness: two lines of different content are delivered in the reverse of
\* their grep order
C14_Witness ==
    /\ pc = "done"
    /\ fzfProcess.state = "closed"
    /\ Len(filteredMapping) = 2
    /\ outcome.results =
           <<filteredMapping[2].fullLine, filteredMapping[1].fullLine>>
    /\ ResultContents[1] # ResultContents[2]

\* the candidate lines given to the content stage, in grep order
CandidateLines ==
    [k \in 1..Len(filteredMapping) |-> filteredMapping[k].fullLine]

WithContent(lines, c) ==
    SelectSeq(lines, LAMBDA line : ContentAfterSecondColon(line) = c)

\* C15: when the content fuzzy process has closed normally, for every content
\* c the lines delivered with content c are the first n candidates with that
\* content in their grep order, n being the number of times c was printed but
\* at most the number of such candidates (all k of them when c was printed k
\* times); no candidate is delivered twice.
C15_DuplicateContent ==
    (/\ pc = "done"
     /\ fzfProcess.state = "closed"
     /\ fzfProcess.code \in {0, 1}) =>
        /\ \A k \in 1..Len(CandidateLines) :
               LET c == ContentAfterSecondColon(CandidateLines[k])
                   same == WithContent(CandidateLines, c)
               IN  WithContent(outcome.results, c) =
                       SubSeq(same, 1,
                              Min(CountIn(EmittedContents, c), Len(same)))
        /\ \A i \in 1..Len(outcome.results) :
               \A j \in 1..Len(outcome.results) :
                   i # j => outcome.results[i] # outcome.results[j]

\* C15 witness: three candidate lines have the same content, it was printed
\* three times, and the three lines are delivered in grep order
C15_Witness ==
    /\ pc = "done"
    /\ fzfProcess.state = "closed"
    /\ Len(CandidateLines) = 3
    /\ \A k \in 1..3 :
           ContentAfterSecondColon(CandidateLines[k]) =
               ContentAfterSecondColon(CandidateLines[1])
    /\ CountIn(EmittedContents,
               ContentAfterSecondColon(CandidateLines[1])) = 3
    /\ outcome.results = CandidateLines

\* the texts of the scenario
FooBar == <<"f", "o", "o", " ", "b", "a", "r">>
BazFoo == <<"b", "a", "z", " ", "f", "o", "o">>
LineFooBar == <<"a", ".", "t", "s", ":", "3", ":", "f", "o", "o", " ", "b", "a", "r">>
LineBazFoo == <<"b", ".", "t", "s", ":", "1", "0", ":", "b", "a", "z", " ", "f", "o", "o">>
LineBazFooIndented == <<" ">> \o LineBazFoo

\* grep printed the two lines of the scenario, the second one after a space,
\* the filename filter is empty and the query is 'foo'
Scenario ==
    /\ rgProcess.state = "closed"
    /\ rgProcess.code \in {0, 1}
    /\ rgProcess.output = Indented
    /\ filenameFilter = <<>>
    /\ query = <<"f", "o", "o">>

\* the content fuzzy process has printed 'baz foo', then 'foo bar', and the
\* search is over
ScenarioAnswered ==
    /\ Scenario
    /\ pc = "done"
    /\ fzfProcess.state = "closed"
    /\ fzfProcess.code \in {0, 1}
    /\ fzfProcess.output = printed(<<BazFoo, FooBar>>)

\* C16 (as claimed): in the scenario the content fuzzy process is given
\* 'foo bar' and 'baz foo', and when it prints 'baz foo' then 'foo bar' the
\* lines delivered are 'b.ts:10:baz foo' and 'a.ts:3:foo bar'.
C16_ScenarioAsClaimed ==
    /\ (Scenario /\ pc \in {"content", "done"}) =>
           fzfProcess.stdin = join(<<FooBar, BazFoo>>, "\n")
    /\ ScenarioAnswered =>
           /\ outcome.state = "resolved"
           /\ outcome.results = <<LineBazFoo, LineFooBar>>

\* C16 (amended): the same, the line delivered first being the grep line as
\* printed, with the space it starts with: ' b.ts:10:baz foo'.
C16_ScenarioKeepsLeadingSpace ==
    /\ (Scenario /\ pc \in {"content", "done"}) =>
           fzfProcess.stdin = join(<<FooBar, BazFoo>>, "\n")
    /\ ScenarioAnswered =>
           /\ outcome.state = "resolved"
           /\ outcome.results = <<LineBazFooIndented, LineFooBar>>

\* C16 witness: the scenario has run to its end
C16_Witness == ScenarioAnswered /\ Len(outcome.results) = 2

\* the candidate lines grep gave, in grep output order
GrepCandidates ==
    [k \in 1..Len(lineMapping) |-> lineMapping[k].fullLine]

\* those of them that survive the filename stage: all when there is no such
\* stage, else those whose file the filename fuzzy process printed
SurvivingCandidates ==
    IF WasSpawned("filename")
    THEN SelectSeq(GrepCandidates,
                   LAMBDA line : fileOfLine(line) \in PrintedFiles)
    ELSE GrepCandidates

\* C17: with a query that is empty or white space only no content fuzzy
\* process is ever spawned, and a search whose grep and filename processes
\* closed normally delivers every candidate line that survived the filename
\* stage, as it is and in grep output order.
C17_BlankQuery ==
    trim(query) = <<>> =>
        /\ ~WasSpawned("content")
        /\ fzfProcess = noProcess
        /\ (pc = "done" /\ ClosedWithZeroOrOne) =>
               /\ outcome.state = "resolved"
               /\ outcome.results = SurvivingCandidates
               /\ \A k \in 1..Len(lineMapping) : \A l \in 1..Len(lineMapping) :
                      k < l => lineMapping[k].index < lineMapping[l].index

\* C17 witness: with a query of one space, the filename stage has kept some
\* of the candidate lines and these are delivered
C17_Witness ==
    /\ pc = "done"
    /\ query = <<" ">>
    /\ fzfFilenameProcess.state = "closed"
    /\ outcome.state = "resolved"
    /\ Len(outcome.results) >= 2
    /\ Len(outcome.results) < Len(lineMapping)

\* C18: once grep has closed with 0 or 1 having printed nothing or white
\* space only and its close handler has run, the search is resolved with the
\* empty list and no fuzzy process has been spawned.
C18_NoMatchGrep ==
    (/\ pc = "done"
     /\ rgProcess.state = "closed"
     /\ rgProcess.code \in {0, 1}
     /\ \A k \in 1..Len(rgProcess.output) :
            rgProcess.output[k] \in WhiteSpace) =>
        /\ outcome.state = "resolved"
        /\ outcome.results = <<>>
        /\ spawned = <<"rg">>
        /\ fzfFilenameProcess = noProcess
        /\ fzfProcess = noProcess

\* C18 witness: grep has printed blank lines and closed with 1, in a search
\* with a filename filter and a query
C18_Witness ==
    /\ pc = "done"
    /\ rgProcess.state = "closed"
    /\ rgProcess.code = 1
    /\ rgProcess.output = BlankOutput
    /\ trim(filenameFilter) # <<>>
    /\ trim(query) # <<>>
    /\ outcome.state = "resolved"

(***************************************************************************)
(* What the functions on text should return.                               *)
(***************************************************************************)
\* C19: for every text of the characters ESC, '[', digits, ';' and 'm',
\* stripAnsiCodes applied to what stripAnsiCodes returned returns it
\* unchanged.
C19_StripIdempotent ==
    textPc = "strippedTwice" => strippedTwice = stripped

\* the positions of the first and of the second colon of the text, 0 when
\* there is none
FirstColon == IndexFrom(givenText, ":", 1)
SecondColon ==
    IF FirstColon = 0 THEN 0 ELSE IndexFrom(givenText, ":", FirstColon + 1)

IsDigits(t) == t # <<>> /\ \A k \in 1..Len(t) : t[k] \in Digit

\* the text is file:digits:content with a file that is not empty and holds
\* no colon
FileDigitsContent ==
    /\ FirstColon >= 2
    /\ SecondColon > 0
    /\ IsDigits(SubSeq(givenText, FirstColon + 1, SecondColon - 1))

\* the text holds a run of digits between two colons
HasDigitSegment ==
    \E i \in 1..Len(givenText) : \E j \in 1..Len(givenText) :
        /\ i < j
        /\ givenText[i] = ":" /\ givenText[j] = ":"
        /\ IsDigits(SubSeq(givenText, i + 1, j - 1))

\* C20: parseSearchLine applied to file:digits:content returns the file, the
\* decimal value of the digits and the content as it is, colons included;
\* applied to a text with no ':digits:' segment it returns null.
C20_ParseSearchLine ==
    textPc = "parsed" =>
        /\ FileDigitsContent =>
               parsedLine =
                   [file |-> SubSeq(givenText, 1, FirstColon - 1),
                    line |-> DecimalValue(SubSeq(givenText, FirstColon + 1,
                                                 SecondColon - 1)),
                    content |-> Rest(givenText, SecondColon + 1)]
        /\ ~HasDigitSegment => parsedLine = null

(***************************************************************************)
(* What a session should do to the pager.                                  *)
(***************************************************************************)
PagerEmpty == allRawResults = <<>> /\ results = <<>>

\* C21: whenever the message the user reads is the 'Search failed' one, no
\* later message being on its way to the view, the pager holds no result,
\* whatever the order in which the searches asked for end.
C21_NoStaleDataNextToError ==
    (messageText = SearchFailed /\ toWebview = <<>>) => PagerEmpty

AllReturned == \A i \in 1..Len(handlers) : handlers[i].at = "returned"

\* C22: once every search asked for has ended, the pager does not hold the
\* results of a search that was still in flight when a later one was asked
\* for: it holds those of a search that was not superseded, or nothing.
C22_SupersededDiscarded ==
    AllReturned => (holder = 0 \/ ~handlers[holder].superseded)

\* the user has emptied both fields, the 'clear' message has been handled and
\* nothing has been typed or asked for since
Cleared ==
    /\ trim(searchInput) = <<>> /\ trim(filenameInput) = <<>>
    /\ timers = {}
    /\ toExtension = <<>>
    /\ lastHandled = "clear"

\* C23: once the user has emptied both fields and the 'clear' message has
\* been handled, the pager holds no result for as long as no new search is
\* started, also when an earlier search was in flight at the time.
C23_ClearedStaysEmpty == Cleared => PagerEmpty

\* the lines of the grouping are lines of the list, under the workspace path
GroupingWithin(map, rawResults, workspace) ==
    \A g \in 1..Len(map) : \A k \in 1..Len(map[g].matches) :
        \E n \in 1..Len(rawResults) :
            map[g].matches[k] = searchResultOf(rawResults[n], workspace)

\* C24: the raw lines of the pager are no line at all, or the whole list one
\* call of executeSearch returned, and the grouping holds lines of that list
\* only; results of two searches are never mixed, in any order of search,
\* clear and load-more events.
C24_NeverMerged ==
    \/ PagerEmpty
    \/ \E i \in 1..Len(handlers) :
           /\ handlers[i].promise.state = "resolved"
           /\ allRawResults = handlers[i].promise.results
           /\ GroupingWithin(results, handlers[i].promise.results,
                             handlers[i].workspacePath)

\* C24 witness: two searches in flight together have returned different
\* lists, the one asked for first has filled the pager last, and more than a
\* batch of its lines has been revealed
C24_Witness ==
    /\ Len(handlers) = 2
    /\ handlers[1].promise.state = "resolved"
    /\ handlers[2].promise.state = "resolved"
    /\ handlers[1].superseded
    /\ Len(handlers[1].promise.results) > 0
    /\ Len(handlers[2].promise.results) > 0
    /\ handlers[1].promise.results # handlers[2].promise.results
    /\ holder = 1
    /\ currentlyDisplayed > batchSize

\* the search of the invocation cannot start
CannotStart(h) ==
    \/ Len(workspaceFolders) = 0
    \/ (trim(h.query) = <<>> /\ trim(h.filter) = <<>>)
    \/ h.binaryPaths = "null"

\* the calls of executeSearch made, each of which spawns grep
Executions(hs) ==
    Cardinality({i \in 1..Len(hs) : hs[i].promise.state # "none"})

\* the invocation has started or gone on in the step
Advanced(i) == i > Len(handlers) \/ handlers'[i] # handlers[i]

\* C25: a step of the onSearch listener for a search that cannot start (no
\* workspace folder, query and filter both blank, or binaries missing) ends
\* the invocation without a call of executeSearch, hence without a process,
\* and leaves the raw lines, the cursor, the grouping and the workspace path
\* of the pager as they are.
C25_CannotStartIsNoOp ==
    [][\A i \in 1..Len(handlers') :
           (Advanced(i) /\ handlers'[i].at = "returned"
                        /\ CannotStart(handlers'[i]))
               => /\ handlers'[i].promise.state = "none"
                  /\ Executions(handlers') = Executions(handlers)
                  /\ UNCHANGED <<allRawResults, currentlyDisplayed, results,
                                 workspacePath>>]_vars

\* C25 witness: the binaries were missing for a search asked for after
\* another one had filled the pager, and the pager is still filled
C25_Witness ==
    /\ messageText = BinariesNotAvailable
    /\ toWebview = <<>>
    /\ \E i \in 1..Len(handlers) :
           handlers[i].at = "returned" /\ handlers[i].binaryPaths = "null"
    /\ allRawResults # <<>>

(***************************************************************************)
(* What the stages of one search should do.                                *)
(***************************************************************************)
\* the non-blank lines of what was read from grep, colour codes removed
CleanGrepLines ==
    LET lines == nonBlankLines(rgProcess.output)
    IN  [k \in 1..Len(lines) |-> stripAnsiCodes(lines[k])]

\* the line is file:digits:content with content that is not blank
IsCandidateLine(line) ==
    LET i == IndexFrom(line, ":", 1)
        j == IF i = 0 THEN 0 ELSE IndexFrom(line, ":", i + 1)
    IN  /\ i >= 2
        /\ j > 0
        /\ IsDigits(SubSeq(line, i + 1, j - 1))
        /\ trim(Rest(line, j + 1)) # <<>>

GrepClosedNormally ==
    pc # "rg" /\ rgProcess.state = "closed" /\ rgProcess.code \in {0, 1}

\* C26: once grep has closed normally and its close handler has parsed the
\* output, the candidates are exactly the non-blank lines that, colour codes
\* removed, are file:digits:content with content not blank, in output order;
\* the other lines are dropped and the search is not rejected for them.
C26_CandidateParsing ==
    GrepClosedNormally =>
        /\ GrepCandidates = SelectSeq(CleanGrepLines, IsCandidateLine)
        /\ outcome.state = "rejected" => outcome.prefix = "fzf failed: "

\* the elements of a list, each once, in the order of first occurrence
FirstOccurrences(list) ==
    LET first(k) == \A j \in 1..(k - 1) : list[j] # list[k]
        positions == SelectSeq([k \in 1..Len(list) |-> k], first)
    IN  [n \in 1..Len(positions) |-> list[positions[n]]]

CandidateFileList ==
    [k \in 1..Len(lineMapping) |-> fileOfLine(lineMapping[k].fullLine)]

\* the lines the filename fuzzy process returned, colour codes removed
ReturnedNames ==
    LET lines == nonBlankLines(fzfFilenameProcess.output)
    IN  {stripAnsiCodes(lines[k]) : k \in 1..Len(lines)}

TimesSpawned(name) ==
    Cardinality({k \in 1..Len(spawned) : spawned[k] = name})

\* C27: with a filename filter that is not blank and candidates to filter,
\* the filename fuzzy process is spawned exactly once and is written the
\* distinct candidate files, in the order of first occurrence, joined by
\* newlines; once it has closed normally the surviving lines are exactly the
\* candidates whose file is one of the lines it returned, colour codes
\* removed, in candidate order.
C27_FilenameStage ==
    /\ (trim(filenameFilter) # <<>> /\ GrepClosedNormally
        /\ lineMapping # <<>>) =>
           /\ TimesSpawned("filename") = 1
           /\ fzfFilenameProcess.stdin =
                  join(FirstOccurrences(CandidateFileList), "\n")
    /\ (pc # "filename" /\ fzfFilenameProcess.state = "closed"
        /\ fzfFilenameProcess.code \in {0, 1}) =>
           CandidateLines =
               SelectSeq(GrepCandidates,
                         LAMBDA line : fileOfLine(line) \in ReturnedNames)

\* C27 witness: the candidates are of two files, one of them twice; the
\* filename fuzzy process returned one file in colour, and the lines of that
\* file survive
C27_Witness ==
    /\ pc # "filename" /\ fzfFilenameProcess.state = "closed"
    /\ fzfFilenameProcess.code = 0
    /\ Len(CandidateFileList) > Len(FirstOccurrences(CandidateFileList))
    /\ Len(FirstOccurrences(CandidateFileList)) > 1
    /\ \E k \in 1..Len(fzfFilenameProcess.output) :
           fzfFilenameProcess.output[k] = ESC
    /\ Len(filteredMapping) > 0
    /\ Len(filteredMapping) < Len(lineMapping)

ContentsOf(lines) ==
    [k \in 1..Len(lines) |-> ContentAfterSecondColon(lines[k])]

TrimmedContentsOf(lines) ==
    [k \in 1..Len(lines) |-> trim(ContentAfterSecondColon(lines[k]))]

\* C28 as claimed: what is written to the content fuzzy process is the
\* trimmed content of each surviving candidate, in candidate order.
C28_ContentLinesTrimmed ==
    WasSpawned("content") =>
        fzfProcess.stdin = join(TrimmedContentsOf(CandidateLines), "\n")

\* C28: what is written to the content fuzzy process is the content of each
\* surviving candidate as it stands after the second colon, white space at
\* its ends included, one line per candidate, in candidate order.
C28_ContentLinesAsTheyAre ==
    WasSpawned("content") =>
        fzfProcess.stdin = join(ContentsOf(CandidateLines), "\n")

\* C28 witness: the content fuzzy process was written the content of a
\* candidate that starts or ends with white space
C28_Witness ==
    /\ WasSpawned("content")
    /\ \E k \in 1..Len(CandidateLines) :
           ContentAfterSecondColon(CandidateLines[k])
               # trim(ContentAfterSecondColon(CandidateLines[k]))

\* C30: the text a closed process was read into is the text of all its
\* bytes, however they were cut into chunks.
C30_ChunkIndependence ==
    \A process \in Processes :
        process.state = "closed" =>
            process.output = toString(process.emitted)

(***************************************************************************)
(* What the command line of grep should be.                                *)
(***************************************************************************)
\* the runs of characters of s between the separators
RECURSIVE Runs(_, _, _)
Runs(s, separators, run) ==
    IF s = <<>> THEN (IF run = <<>> THEN <<>> ELSE <<run>>)
    ELSE IF Head(s) \in separators
    THEN (IF run = <<>> THEN <<>> ELSE <<run>>)
             \o Runs(Tail(s), separators, <<>>)
    ELSE Runs(Tail(s), separators, Append(run, Head(s)))

ArgumentsWith(extraArguments) ==
    <<LineNumberFlag>> \o extraArguments
        \o (IF respectGitignore THEN gitignoreGlobs ELSE <<>>)
        \o <<NonBlankPattern>>

\* C29: the arguments of grep are, in this order, --line-number, the setting
\* where.rgArgs split on white space with no empty argument, the exclusions
\* when and only when respectGitignore is set, and \S.
C29_SplitOnWhiteSpace ==
    allArgs # <<>> => allArgs = ArgumentsWith(Runs(rgArgs, WhiteSpace, <<>>))

(***************************************************************************)
(* What the tree should show for a revealed line.                          *)
(***************************************************************************)
\* the path a raw line starts with: the text before its first colon
RawPath(rawLine) ==
    LET i == IndexFrom(rawLine, ":", 1)
    IN  IF i = 0 THEN rawLine ELSE SubSeq(rawLine, 1, i - 1)

\* the path of a raw line under a workspace path: itself when it starts at
\* the root, joined onto the workspace path otherwise
ResolvedPath(rawLine, workspace) ==
    LET p == RawPath(rawLine)
    IN  IF p # <<>> /\ p[1] = "/" THEN p ELSE pathJoin(workspace, p)

\* the resolved path of each of the first n lines of raw
ResolvedPaths(raw, n, workspace) ==
    LET lines == {raw[i] : i \in 1..n}
        pathOf == [l \in lines |-> ResolvedPath(l, workspace)]
    IN  [i \in 1..n |-> pathOf[raw[i]]]

\* C31: the file of the result of every revealed line, and the key of the
\* group it is put in, is the raw path when that path is absolute and the
\* raw path joined onto the workspace path otherwise; no two groups have the
\* same key, so two lines share a group exactly when their resolved paths are
\* equal.
C31_PathResolution ==
    LET paths == ResolvedPaths(allRawResults, currentlyDisplayed,
                               workspacePath)
    IN  /\ \A i \in 1..Len(paths) :
               \E g \in 1..Len(results) : results[g].file = paths[i]
        /\ \A g \in 1..Len(results) :
               /\ Len(results[g].matches) =
                      Cardinality({i \in 1..Len(paths) :
                                      paths[i] = results[g].file})
               /\ \A k \in 1..Len(results[g].matches) :
                      results[g].matches[k].file = results[g].file
               /\ \A h \in 1..Len(results) :
                      results[h].file = results[g].file => h = g

\* C31 witness: a line with an absolute path and a line with a relative path
\* are revealed in one group, next to a line of another group, after
\* loadMoreResults has revealed part of them
C31_Witness ==
    /\ lastCall.op = "loadMoreResults"
    /\ currentlyDisplayed > batchSize
    /\ Len(results) >= 2
    /\ \E i \in 1..currentlyDisplayed : \E j \in 1..currentlyDisplayed :
           /\ RawPath(allRawResults[i])[1] = "/"
           /\ RawPath(allRawResults[j])[1] # "/"
           /\ ResolvedPath(allRawResults[i], workspacePath) =
                  ResolvedPath(allRawResults[j], workspacePath)

\* the number a raw line file:digits:content carries between its first two
\* colons, 0 when the line is not of this form
NumberBetweenColons(rawLine) ==
    LET i == IndexFrom(rawLine, ":", 1)
        j == IF i = 0 THEN 0 ELSE IndexFrom(rawLine, ":", i + 1)
        digits == SubSeq(rawLine, i + 1, j - 1)
    IN  IF i >= 2 /\ j > i + 1 /\ \A k \in 1..Len(digits) : digits[k] \in Digit
        THEN DecimalValue(digits) ELSE 0

\* the positions of the first n lines of raw whose resolved path is file
PositionsOf(raw, n, workspace, file) ==
    LET paths == ResolvedPaths(raw, n, workspace)
    IN  SelectSeq([i \in 1..n |-> i], LAMBDA i : paths[i] = file)

\* C32: the match item shown for a revealed line of file F with the 1-based
\* line number L carries the command where.openResult with the resolved path
\* of F and L - 1, which is not negative.
C32_OpenResult ==
    LET items == SelectSeq(getChildren, LAMBDA it : it.type = "file")
    IN  \A g \in 1..Len(items) :
            LET shown == getChildrenOf(items[g])
                mine == PositionsOf(allRawResults, currentlyDisplayed,
                                    workspacePath, items[g].filePath)
            IN  /\ Len(shown) = Len(mine)
                /\ \A k \in 1..Len(shown) :
                       LET number == NumberBetweenColons(allRawResults[mine[k]])
                       IN  /\ shown[k].type = "match"
                           /\ shown[k].command.command = "where.openResult"
                           /\ shown[k].command.arguments[1] =
                                  ResolvedPath(allRawResults[mine[k]],
                                               workspacePath)
                           /\ number >= 1 =>
                                  /\ shown[k].command.arguments[2] = number - 1
                                  /\ shown[k].command.arguments[2] >= 0

\* C32 witness: the tree shows the match of line 12 of a file given
\* relative to the workspace, next to other matches
C32_Witness ==
    /\ currentlyDisplayed >= 2
    /\ \E g \in 1..Len(getChildren) :
           /\ getChildren[g].type = "file"
           /\ LET shown == getChildrenOf(getChildren[g])
              IN  /\ Len(shown) >= 2
                  /\ \E k \in 1..Len(shown) :
                         /\ shown[k].line = 12
                         /\ shown[k].command.arguments =
                                <<<<"/", "w", "/", "b">>, 11>>

\* the Load More items of the root of the tree
LoadMoreItems == SelectSeq(getChildren, LAMBDA it : it.type = "loadMore")

\* C33: the root of the tree holds a Load More item, one and in the last
\* place, exactly when fewer lines are revealed than the set has; and the
\* grouping is empty exactly when no line is revealed, so that the early
\* return of getChildren on an empty grouping hides no Load More item.
C33_LoadMoreShown ==
    /\ (Len(LoadMoreItems) > 0) <=> (currentlyDisplayed < Len(allRawResults))
    /\ Len(LoadMoreItems) <= 1
    /\ Len(LoadMoreItems) = 1 =>
           getChildren[Len(getChildren)].type = "loadMore"
    /\ (Len(results) = 0) <=> (currentlyDisplayed = 0)

\* C33 witness: after loadMoreResults, the root ends with a Load More item
\* behind the file items, lines remaining to be revealed
C33_Witness ==
    /\ lastCall.op = "loadMoreResults"
    /\ currentlyDisplayed > batchSize
    /\ currentlyDisplayed < Len(allRawResults)
    /\ Len(getChildren) >= 3
    /\ getChildren[Len(getChildren)].type = "loadMore"

InputEventStep == searchInput' # searchInput \/ filenameInput' # filenameInput

\* the step is the firing of a timer: search() runs
TimerFiredStep == posted' = posted + 1

\* the message posted by the step
PostedMessage == toExtension'[Len(toExtension')]

\* C38: at most one scheduled search is pending at any time; an input event
\* on either field leaves exactly one pending and posts nothing; the firing
\* of the timer leaves none pending and posts exactly one message, made of
\* the values the fields have at that moment; and nothing else posts a
\* message. So a burst of input events gives one message.
C38_Debounce ==
    [][/\ Cardinality(timers) <= 1
       /\ Cardinality(timers') <= 1
       /\ InputEventStep =>
              /\ Cardinality(timers') = 1
              /\ debounceTimer' \in timers'
              /\ UNCHANGED <<toExtension, posted>>
       /\ TimerFiredStep =>
              /\ Cardinality(timers) = 1
              /\ timers' = {}
              /\ Len(toExtension') = Len(toExtension) + 1
              /\ SubSeq(toExtension', 1, Len(toExtension)) = toExtension
              /\ PostedMessage.type = "search" =>
                     /\ PostedMessage.query = trim(searchInput')
                     /\ PostedMessage.filenameFilter = trim(filenameInput')
       /\ Len(toExtension') > Len(toExtension) => TimerFiredStep]_vars

\* C38 witness: a burst of two input events, one on each field, has given
\* one message, which carries the values of both fields
C38_Witness ==
    /\ posted = 1
    /\ timers = {}
    /\ searchInput = <<" ", "x">> /\ filenameInput = <<"a">>
    /\ toExtension = <<[type |-> "search", query |-> <<"x">>,
                        filenameFilter |-> <<"a">>]>>

\* C39: when the timer fires the view posts exactly one message: 'search'
\* with the trimmed query and the trimmed filename filter if one of them is
\* not empty, 'clear' otherwise; so the onSearch listener is never started
\* with a query and a filter that are both blank, and never answers 'Please
\* enter a search query or filename filter'.
C39_SearchOrClear ==
    [][/\ TimerFiredStep =>
              LET q == trim(searchInput)
                  filter == trim(filenameInput)
              IN  /\ toExtension' = Append(toExtension, PostedMessage)
                  /\ (q # <<>> \/ filter # <<>>) =>
                         PostedMessage = [type |-> "search", query |-> q,
                                          filenameFilter |-> filter]
                  /\ (q = <<>> /\ filter = <<>>) => PostedMessage.type = "clear"
       /\ \A i \in 1..Len(handlers') :
              trim(handlers'[i].query) # <<>> \/ trim(handlers'[i].filter) # <<>>
       /\ \A k \in 1..Len(toWebview') : toWebview'[k] # PleaseEnter]_vars

\* C39 witness: the view has posted 'search' with the trimmed query for a
\* field holding " x", the listener has been started with it, and the view
\* has then posted 'clear' for a field holding a space only
C39_Witness ==
    /\ searchInput = <<" ">> /\ filenameInput = <<>>
    /\ Len(handlers) = 1 /\ handlers[1].query = <<"x">>
    /\ toExtension # <<>>
    /\ toExtension[Len(toExtension)].type = "clear"

(***************************************************************************)
(* What one search should deliver.                                         *)
(***************************************************************************)
\* the lines of the grep output that are candidates, in output order
ParsedCandidates == SelectSeq(CleanGrepLines, IsCandidateLine)

\* the lines the content fuzzy process returned
ReturnedContents == nonBlankLines(fzfProcess.output)

\* C35: every line a search delivers is a candidate line parsed from the grep
\* output, no line is delivered more often than it is among the candidates,
\* no more lines are delivered than the content fuzzy process returned, and a
\* returned content that no remaining candidate has is passed over: the
\* search is resolved and no error is raised.
C35_OnlyCandidates ==
    /\ outcome.state = "resolved" =>
           /\ \A k \in 1..Len(outcome.results) :
                  /\ CountIn(ParsedCandidates, outcome.results[k]) >= 1
                  /\ CountIn(outcome.results, outcome.results[k]) <=
                         CountIn(ParsedCandidates, outcome.results[k])
           /\ WasSpawned("content") =>
                  Len(outcome.results) <= Len(ReturnedContents)
    /\ (/\ pc = "done"
        /\ fzfProcess.state = "closed"
        /\ fzfProcess.code \in {0, 1}) =>
           /\ outcome.state = "resolved"
           /\ uncaught = <<>>

\* C35 witness: the content fuzzy process returned more contents than could
\* be matched to candidates, and the lines that could be are delivered
C35_Witness ==
    /\ pc = "done"
    /\ fzfProcess.state = "closed"
    /\ outcome.state = "resolved"
    /\ Len(outcome.results) >= 1
    /\ Len(outcome.results) < Len(ReturnedContents)
    /\ Len(ParsedCandidates) >= 2

\* C36: every line a search delivers is file:digits:content, so the pager
\* parses it with the strict pattern under any workspace path: it does not
\* take the colon-split fallback and the line number of the result is the
\* number between the colons, not NaN.
C36_DeliveredLinesParse ==
    outcome.state = "resolved" =>
        \A k \in 1..Len(outcome.results) :
            /\ IsCandidateLine(outcome.results[k])
            /\ parseSearchLine(outcome.results[k]) # null
            /\ \A workspace \in WorkspacePaths :
                   LET result == toSearchResult(outcome.results[k], workspace)
                   IN  /\ result.line # NaN
                       /\ result.line =
                              NumberBetweenColons(outcome.results[k])
                       /\ result.file =
                              ResolvedPath(outcome.results[k], workspace)

\* C36 witness: grep printed lines that are not file:digits:content next to
\* lines that are, and the search has delivered lines
C36_Witness ==
    /\ outcome.state = "resolved"
    /\ Len(outcome.results) >= 1
    /\ Len(CleanGrepLines) > Len(ParsedCandidates)

\* a process could not be spawned: it never closes
SomeSpawnFailed ==
    \E process \in Processes : process.state \in {"failed", "errored"}

\* C34: if every process spawned by a search closes, with any exit code, the
\* promise of the search is resolved or rejected in the end (and with it the
\* 'Searching...' message of the listener that awaits it is replaced).
C34_SearchSettles ==
    (outcome.state = "pending") ~>
        (outcome.state \in {"resolved", "rejected"} \/ SomeSpawnFailed)

====
